---- MODULE Spec2Model ----
(***************************************************************************)
(* csv-graphql-api: the query core.                                        *)
(*                                                                         *)
(* CSV rows are coerced and stored in SQLite tables (DatabaseManager), a   *)
(* filter object is either translated into a parameterised SQL predicate   *)
(* (SQLQueryBuilder) or evaluated on materialised rows (filters.ts), and   *)
(* the resolvers of SchemaGenerator page and clean the rows.               *)
(*                                                                         *)
(* Two revisions of SQLQueryBuilder (sql-builder.ts, lines 1-277 and       *)
(* 278-497) and two of SchemaGenerator (generator.ts and its JavaScript    *)
(* twin) are in the repository; the model carries the revision in use as   *)
(* state fixed at construction.                                            *)
(***************************************************************************)
EXTENDS Integers, Sequences, FiniteSets, TLC

VARIABLES
    tables,      \* table name -> sequence of stored rows, in _rowid order
    builderRev,  \* revision of SQLQueryBuilder in use: 1 or 2
    generator,   \* SchemaGenerator in use: "ts" or "js"
    pc,          \* "idle", or "done" when a call has returned and is observed
    call,        \* the last call: its arguments, its result and its effects
    srv,         \* the server process: database, apolloServer, the requests
    sg           \* the SchemaGenerator whose generateSchema is running

vars == <<tables, builderRev, generator, pc, call, srv, sg>>

(***************************************************************************)
(* Bounds of the model.                                                    *)
(***************************************************************************)
MaxRows == 2     \* rows inserted per table
MaxRefreshes == 2    \* POST /refresh-schema requests
MaxQueries == 1      \* GraphQL requests in flight at once

(***************************************************************************)
(* JavaScript / SQLite values.  t is the type tag; n carries a number (or  *)
(* 0/1 of a boolean), s the characters of a string.                        *)
(***************************************************************************)
Null == [t |-> "null", n |-> 0, s |-> <<>>]
Undefined == [t |-> "undef", n |-> 0, s |-> <<>>]
IntV(i) == [t |-> "int", n |-> i, s |-> <<>>]
StrV(str) == [t |-> "str", n |-> 0, s |-> str]
BoolV(b) == [t |-> "bool", n |-> IF b THEN 1 ELSE 0, s |-> <<>>]
\* A Date object: n is its instant, counted in half days from
\* 2023-01-01T00:00:00.000Z.
DateV(i) == [t |-> "date", n |-> i, s |-> <<>>]

IsNullish(v) == v.t = "null" \/ v.t = "undef"

\* Code units of the characters the model uses (ASCII).
CharCode(c) ==
    CASE c = "%" -> 37 [] c = "-" -> 45 [] c = "." -> 46 [] c = ":" -> 58
      [] c = "0" -> 48 [] c = "1" -> 49 [] c = "2" -> 50
      [] c = "3" -> 51 [] c = "4" -> 52 [] c = "5" -> 53 [] c = "6" -> 54
      [] c = "7" -> 55 [] c = "8" -> 56 [] c = "9" -> 57
      [] c = "A" -> 65 [] c = "B" -> 66 [] c = "O" -> 79 [] c = "T" -> 84
      [] c = "U" -> 85 [] c = "Y" -> 89 [] c = "Z" -> 90
      [] c = "_" -> 95
      [] c = "a" -> 97 [] c = "b" -> 98 [] c = "d" -> 100 [] c = "e" -> 101
      [] c = "f" -> 102
      [] c = "l" -> 108 [] c = "n" -> 110 [] c = "o" -> 111 [] c = "r" -> 114
      [] c = "s" -> 115 [] c = "t" -> 116 [] c = "u" -> 117 [] c = "x" -> 120
      [] c = "y" -> 121 [] c = "z" -> 122

\* String.prototype.toLowerCase on one character.
LowerChar(c) ==
    CASE c = "A" -> "a" [] c = "B" -> "b" [] c = "O" -> "o" [] c = "T" -> "t"
      [] c = "U" -> "u" [] c = "Y" -> "y" [] c = "Z" -> "z"
      [] OTHER -> c

toLowerCase(str) == [i \in 1..Len(str) |-> LowerChar(str[i])]

IsDigit(c) == CharCode(c) >= 48 /\ CharCode(c) <= 57

DigitChar(d) ==
    CASE d = 0 -> "0" [] d = 1 -> "1" [] d = 2 -> "2" [] d = 3 -> "3"
      [] d = 4 -> "4" [] d = 5 -> "5" [] d = 6 -> "6" [] d = 7 -> "7"
      [] d = 8 -> "8" [] d = 9 -> "9"

RECURSIVE NatToString(_)
NatToString(k) ==
    IF k < 10 THEN <<DigitChar(k)>>
    ELSE Append(NatToString(k \div 10), DigitChar(k % 10))

\* String(value) of JavaScript.
String(v) ==
    CASE v.t = "str" -> v.s
      [] v.t = "int" -> IF v.n < 0 THEN <<"-">> \o NatToString(0 - v.n)
                        ELSE NatToString(v.n)
      [] v.t = "bool" -> IF v.n = 1 THEN <<"t", "r", "u", "e">>
                         ELSE <<"f", "a", "l", "s", "e">>
      [] v.t = "null" -> <<"n", "u", "l", "l">>
      [] OTHER -> <<"u", "n", "d", "e", "f", "i", "n", "e", "d">>

(***************************************************************************)
(* Dates.  The calendar of the model is the first days of January 2023, at *)
(* midnight and at noon UTC.                                               *)
(***************************************************************************)
DateTicks == 0..5

TwoDigits(k) == <<DigitChar(k \div 10), DigitChar(k % 10)>>

\* Date.prototype.toISOString()
toISOString(i) ==
    <<"2", "0", "2", "3", "-", "0", "1", "-">> \o TwoDigits(i \div 2 + 1)
      \o <<"T">> \o TwoDigits(12 * (i % 2))
      \o <<":", "0", "0", ":", "0", "0", ".", "0", "0", "0", "Z">>

\* str.split('T')[0]
RECURSIVE SplitT(_)
SplitT(str) ==
    IF str = <<>> \/ Head(str) = "T" THEN <<>>
    ELSE <<Head(str)>> \o SplitT(Tail(str))

\* new Date(str) for a string: the instant of a full ISO timestamp, UTC
\* midnight of a YYYY-MM-DD date, and an invalid date (nan) for any other
\* text of the model.
NewDate(str) ==
    LET full == {i \in DateTicks : toISOString(i) = str}
        dateOnly == {i \in DateTicks : i % 2 = 0 /\ SplitT(toISOString(i)) = str}
    IN  IF full \cup dateOnly = {} THEN [nan |-> TRUE, n |-> 0]
        ELSE [nan |-> FALSE, n |-> CHOOSE i \in full \cup dateOnly : TRUE]

\* date.getTime(), in seconds.
GetTime(i) == 1672531200 + 43200 * i

\* Lexicographic order of two strings by code unit (JavaScript's < on
\* strings, SQLite's BINARY collation).
RECURSIVE StrLess(_, _)
StrLess(a, b) ==
    IF b = <<>> THEN FALSE
    ELSE IF a = <<>> THEN TRUE
    ELSE IF CharCode(Head(a)) # CharCode(Head(b))
         THEN CharCode(Head(a)) < CharCode(Head(b))
    ELSE StrLess(Tail(a), Tail(b))

(***************************************************************************)
(* The datasets: Users and Orders, as in the repository's relationship     *)
(* tests.  Users.id -> Orders.user_id is one-to-many (field "orders"),     *)
(* Orders.user_id -> Users.id is one-to-one (field "users").  Every name   *)
(* is made of letters, digits and underscores only, so sanitizeIdentifier  *)
(* leaves it as it is.                                                     *)
(***************************************************************************)
TableNames == {"Users", "Orders"}

Fields(table) ==
    IF table = "Users"
    THEN << [name |-> "id", type |-> "Int"],
            [name |-> "name", type |-> "String"],
            [name |-> "is_active", type |-> "Boolean"],
            [name |-> "created_date", type |-> "Date"] >>
    ELSE << [name |-> "id", type |-> "Int"],
            [name |-> "user_id", type |-> "Int"],
            [name |-> "status", type |-> "String"] >>

FieldNames(table) == {Fields(table)[i].name : i \in 1..Len(Fields(table))}

FieldType(table, name) ==
    LET i == CHOOSE j \in 1..Len(Fields(table)) : Fields(table)[j].name = name
    IN  Fields(table)[i].type

Relationships(table) ==
    IF table = "Users"
    THEN << [field |-> "id", references |-> "Orders",
             referenceField |-> "user_id", type |-> "one-to-many"] >>
    ELSE << [field |-> "user_id", references |-> "Users",
             referenceField |-> "id", type |-> "one-to-one"] >>

\* Rows as the CSV parser (strings) or a caller (numbers, booleans) hands
\* them to insertData.
RawRows(table) ==
    IF table = "Users"
    THEN { [id |-> StrV(<<"1">>), name |-> StrV(<<"a", "b">>),
            is_active |-> StrV(<<"T", "r", "u", "e">>),
            created_date |-> StrV(SplitT(toISOString(2)))],
           [id |-> IntV(2), name |-> StrV(<<"A", "b">>),
            is_active |-> BoolV(FALSE),
            created_date |-> StrV(toISOString(5))],
           [id |-> StrV(<<>>), name |-> Null, is_active |-> Undefined,
            created_date |-> StrV(<<"x">>)] }
    ELSE { [id |-> IntV(1), user_id |-> StrV(<<"1">>),
            status |-> StrV(<<"a", "b">>)],
           [id |-> IntV(2), user_id |-> IntV(1), status |-> StrV(<<"b">>)],
           [id |-> IntV(3), user_id |-> StrV(<<"x">>), status |-> Null] }

(***************************************************************************)
(* DatabaseManager: storage coercion and insertion.                        *)
(***************************************************************************)
\* The value of the leading decimal digits of a string; -1 when there is
\* none (NaN).
RECURSIVE DigitsValue(_, _, _)
DigitsValue(str, acc, seen) ==
    IF str # <<>> /\ IsDigit(Head(str))
    THEN DigitsValue(Tail(str), 10 * acc + (CharCode(Head(str)) - 48), TRUE)
    ELSE IF seen THEN acc ELSE -1

\* parseInt(value, 10) for the unsigned inputs of the model.
parseInt(v) == DigitsValue(String(v), 0, FALSE)

\* A fractional number: n is its integer part, s the digits after the
\* point without trailing zeros.  A whole number is an IntV.
FloatV(n, frac) ==
    IF frac = <<>> THEN IntV(n) ELSE [t |-> "float", n |-> n, s |-> frac]

\* The leading decimal digits of a string.
RECURSIVE LeadingDigits(_)
LeadingDigits(str) ==
    IF str # <<>> /\ IsDigit(Head(str))
    THEN <<Head(str)>> \o LeadingDigits(Tail(str))
    ELSE <<>>

RECURSIVE StripTrailingZeros(_)
StripTrailingZeros(digits) ==
    IF digits # <<>> /\ digits[Len(digits)] = "0"
    THEN StripTrailingZeros(SubSeq(digits, 1, Len(digits) - 1))
    ELSE digits

\* parseFloat(value) for the unsigned inputs of the model, without
\* exponent: digits, then a point and digits if they follow.
parseFloat(v) ==
    LET str == String(v)
        whole == LeadingDigits(str)
        rest == SubSeq(str, Len(whole) + 1, Len(str))
        frac == IF rest # <<>> /\ Head(rest) = "."
                THEN LeadingDigits(Tail(rest)) ELSE <<>>
    IN  IF whole = <<>> /\ frac = <<>> THEN [nan |-> TRUE, v |-> Null]
        ELSE [nan |-> FALSE,
              v |-> FloatV(IF whole = <<>> THEN 0 ELSE DigitsValue(whole, 0, FALSE),
                           StripTrailingZeros(frac))]

\* The Date branch storing the whole timestamp.
convertToSQLValueWholeTimestamp(value, fieldType) ==
    IF IsNullish(value) \/ value = StrV(<<>>) THEN Null
    ELSE CASE fieldType = "Boolean" ->
                LET lowerVal == toLowerCase(String(value))
                IN  IF \/ lowerVal = <<"t", "r", "u", "e">>
                       \/ lowerVal = <<"1">>
                       \/ lowerVal = <<"y", "e", "s">>
                    THEN IntV(1) ELSE IntV(0)
           [] fieldType \in {"Date", "DateTime"} ->
                IF NewDate(String(value)).nan THEN Null
                ELSE StrV(toISOString(NewDate(String(value)).n))
           [] fieldType = "Int" ->
                IF parseInt(value) < 0 THEN Null ELSE IntV(parseInt(value))
           [] fieldType = "Float" ->
                IF parseFloat(value).nan THEN Null ELSE parseFloat(value).v
           [] OTHER -> StrV(String(value))

convertToSQLValue(value, fieldType) ==
    IF IsNullish(value) \/ value = StrV(<<>>) THEN Null
    ELSE CASE fieldType = "Boolean" ->
                LET lowerVal == toLowerCase(String(value))
                IN  IF \/ lowerVal = <<"t", "r", "u", "e">>
                       \/ lowerVal = <<"1">>
                       \/ lowerVal = <<"y", "e", "s">>
                    THEN IntV(1) ELSE IntV(0)
           [] fieldType = "Date" ->
                IF NewDate(String(value)).nan THEN Null
                ELSE StrV(SplitT(toISOString(NewDate(String(value)).n)))
           [] fieldType = "DateTime" ->
                IF NewDate(String(value)).nan THEN Null
                ELSE StrV(toISOString(NewDate(String(value)).n))
           [] fieldType = "Int" ->
                IF parseInt(value) < 0 THEN Null ELSE IntV(parseInt(value))
           [] fieldType = "Float" ->
                IF parseFloat(value).nan THEN Null ELSE parseFloat(value).v
           [] OTHER -> StrV(String(value))

\* One stored row: the AUTOINCREMENT _rowid and the coerced columns.
StoredRow(table, rowid, raw) ==
    [c \in {"_rowid"} \cup FieldNames(table) |->
        IF c = "_rowid" THEN IntV(rowid)
        ELSE convertToSQLValue(IF c \in DOMAIN raw THEN raw[c] ELSE Undefined,
                               FieldType(table, c))]

\* The row handed on as it was read.
StripRowidKeepsAll(row) == row

\* const { _rowid, ...rest } = item
StripRowid(row) == [c \in DOMAIN row \ {"_rowid"} |-> row[c]]

StripAll(rows) == [i \in 1..Len(rows) |-> StripRowid(rows[i])]

(***************************************************************************)
(* Filter objects.  A filter is a sequence of entries [key, val] in the    *)
(* order of Object.entries; val is the object under the key: an operator   *)
(* set (o: operator name -> operand, "in" -> a sequence of operands) or,   *)
(* under a relationship key, a nested filter (e: its entries).             *)
(***************************************************************************)
NoOps == [x \in {} |-> Null]
Ops(o) == [t |-> "ops", o |-> o, e |-> <<>>]
Nested(e) == [t |-> "filter", o |-> NoOps, e |-> e]
Entry(key, val) == [key |-> key, val |-> val]

\* The filter argument: undefined, or an object with its entries.
NoFilter == [def |-> FALSE, e |-> <<>>]
Filter(e) == [def |-> TRUE, e |-> e]

\* Object.keys(val).length
NumKeys(val) == IF val.t = "ops" THEN Cardinality(DOMAIN val.o) ELSE Len(val.e)

\* filter.<op> !== undefined
Has(val, op) ==
    /\ val.t = "ops"
    /\ op \in DOMAIN val.o
    /\ (op = "in" \/ val.o[op].t # "undef")

(***************************************************************************)
(* SQLQueryBuilder.  The SQL text is kept as its structure: the table, the *)
(* WHERE clause as a sequence of parenthesised groups of conditions, the   *)
(* ORDER BY, and the LIMIT / OFFSET placeholders; params is the positional *)
(* parameter list.  A condition names its column, its operator and the     *)
(* number of '?' it holds.                                                 *)
(***************************************************************************)
NoPiece == [conds |-> <<>>, params |-> <<>>]
Piece(cond, params) == [conds |-> <<cond>>, params |-> params]
Cat(p, q) == [conds |-> p.conds \o q.conds, params |-> p.params \o q.params]

Cond(k, f, op, nph) == [k |-> k, f |-> f, op |-> op, nph |-> nph]

convertFilterValue(value) ==
    IF IsNullish(value) THEN Null
    ELSE IF value.t = "date" THEN StrV(toISOString(value.n))
    ELSE IF value.t = "bool" THEN (IF value.n = 1 THEN IntV(1) ELSE IntV(0))
    ELSE value

\* Revision 1, a Date operand: the comparison against both stored formats,
\* '(f op ? OR f op ?)' or, for ne, '(f != ? AND f != ?)', with the date
\* part and the full timestamp as parameters.
DatePiece(fieldName, operand, sqlOp, kind) ==
    Piece(Cond(kind, fieldName, sqlOp, 2),
          <<StrV(SplitT(toISOString(operand.n))), StrV(toISOString(operand.n))>>)

\* eq / ne without the null branch: a null operand is bound like any other.
EqualityPieceNoNull(fieldName, filter, op, sqlOp, nullKind, rev) ==
    IF ~Has(filter, op) THEN NoPiece
    ELSE Piece(Cond("cmp", fieldName, sqlOp, 1), <<convertFilterValue(filter.o[op])>>)

\* eq / ne: IS [NOT] NULL for a null operand, a comparison otherwise.
EqualityPiece(fieldName, filter, op, sqlOp, nullKind, rev) ==
    IF ~Has(filter, op) THEN NoPiece
    ELSE IF filter.o[op].t = "null" THEN Piece(Cond(nullKind, fieldName, "", 0), <<>>)
    ELSE IF rev = 1 /\ filter.o[op].t = "date"
    THEN DatePiece(fieldName, filter.o[op], sqlOp, IF op = "eq" THEN "cmpOr" ELSE "cmpAnd")
    ELSE Piece(Cond("cmp", fieldName, sqlOp, 1), <<convertFilterValue(filter.o[op])>>)

\* gt / gte / lt / lte
OrderPiece(fieldName, filter, op, sqlOp, rev) ==
    IF ~Has(filter, op) THEN NoPiece
    ELSE IF rev = 1 /\ filter.o[op].t = "date"
    THEN DatePiece(fieldName, filter.o[op], sqlOp, "cmpOr")
    ELSE Piece(Cond("cmp", fieldName, sqlOp, 1), <<convertFilterValue(filter.o[op])>>)

\* The values bound for an in-list: revision 1 expands a Date into its two
\* formats.
RECURSIVE ExpandedValues(_, _)
ExpandedValues(list, rev) ==
    IF list = <<>> THEN <<>>
    ELSE (IF rev = 1 /\ Head(list).t = "date"
          THEN <<StrV(SplitT(toISOString(Head(list).n))), StrV(toISOString(Head(list).n))>>
          ELSE <<convertFilterValue(Head(list))>>)
         \o ExpandedValues(Tail(list), rev)

\* in: revision 1 turns an empty list into '1 = 0'; revision 2 emits
\* nothing for it.
InPiece(fieldName, filter, rev) ==
    IF ~Has(filter, "in") THEN NoPiece
    ELSE IF Len(filter.o["in"]) = 0
         THEN (IF rev = 1 THEN Piece(Cond("false", "", "1 = 0", 0), <<>>) ELSE NoPiece)
    ELSE Piece(Cond("in", fieldName, "IN", Len(ExpandedValues(filter.o["in"], rev))),
               ExpandedValues(filter.o["in"], rev))

\* contains / startsWith / endsWith: LIKE with the operand spliced into a
\* pattern.
LikePiece(fieldName, filter, op) ==
    IF ~Has(filter, op) THEN NoPiece
    ELSE LET operand == String(filter.o[op])
             pattern == CASE op = "contains" -> <<"%">> \o operand \o <<"%">>
                          [] op = "startsWith" -> operand \o <<"%">>
                          [] OTHER -> <<"%">> \o operand
         IN  Piece(Cond("like", fieldName, "LIKE", 1), <<StrV(pattern)>>)

buildFieldConditions(fieldName, filter, rev) ==
    Cat(EqualityPiece(fieldName, filter, "eq", "=", "isnull", rev),
    Cat(EqualityPiece(fieldName, filter, "ne", "!=", "notnull", rev),
    Cat(OrderPiece(fieldName, filter, "gt", ">", rev),
    Cat(OrderPiece(fieldName, filter, "gte", ">=", rev),
    Cat(OrderPiece(fieldName, filter, "lt", "<", rev),
    Cat(OrderPiece(fieldName, filter, "lte", "<=", rev),
    Cat(InPiece(fieldName, filter, rev),
    Cat(LikePiece(fieldName, filter, "contains"),
    Cat(LikePiece(fieldName, filter, "startsWith"),
        LikePiece(fieldName, filter, "endsWith"))))))))))

\* The WHERE clause: one group per field that yields a condition, and the
\* parameters in the order the conditions were built.
RECURSIVE WhereFrom(_, _)
WhereFrom(entries, rev) ==
    IF entries = <<>> THEN [groups |-> <<>>, params |-> <<>>]
    ELSE LET p == buildFieldConditions(Head(entries).key, Head(entries).val, rev)
             rest == WhereFrom(Tail(entries), rev)
         IN  [groups |-> (IF Len(p.conds) > 0 THEN <<p.conds>> ELSE <<>>) \o rest.groups,
              params |-> p.params \o rest.params]

buildWhereClause(filters, rev) ==
    IF ~filters.def \/ Len(filters.e) = 0 THEN [groups |-> <<>>, params |-> <<>>]
    ELSE WhereFrom(filters.e, rev)

\* The pagination argument of buildSelectQuery: absent, or an object whose
\* offset and limit may each be undefined.
NoNum == [def |-> FALSE, n |-> 0]
Num(k) == [def |-> TRUE, n |-> k]
NoPagination == [def |-> FALSE, offset |-> NoNum, limit |-> NoNum]
Pagination(offset, limit) == [def |-> TRUE, offset |-> offset, limit |-> limit]

buildSelectQuery(tableName, filters, pagination, rev) ==
    LET w == buildWhereClause(filters, rev)
        hasLimit == pagination.def /\ pagination.limit.def
        hasOffset == pagination.def /\ pagination.offset.def
    IN  [ kind |-> "select", table |-> tableName, where |-> w.groups,
          orderBy |-> TRUE, limitParam |-> hasLimit, offsetParam |-> hasOffset,
          limitOne |-> FALSE,
          params |-> w.params
                     \o (IF hasLimit THEN <<IntV(pagination.limit.n)>> ELSE <<>>)
                     \o (IF hasOffset THEN <<IntV(pagination.offset.n)>> ELSE <<>>) ]

buildCountQuery(tableName, filters, rev) ==
    LET w == buildWhereClause(filters, rev)
    IN  [ kind |-> "count", table |-> tableName, where |-> w.groups,
          orderBy |-> FALSE, limitParam |-> FALSE, offsetParam |-> FALSE,
          limitOne |-> FALSE, params |-> w.params ]

\* buildRelationshipQuery has six parameters: a seventh and an eighth
\* argument of a call are not received.
buildRelationshipQuery(fromTable, fromField, toTable, toField, fromValue, isOneToMany) ==
    [ kind |-> "select", table |-> toTable,
      where |-> << <<Cond("cmp", toField, "=", 1)>> >>,
      orderBy |-> TRUE, limitParam |-> FALSE, offsetParam |-> FALSE,
      limitOne |-> ~isOneToMany, params |-> <<fromValue>> ]

(***************************************************************************)
(* SQLite, as database.query reaches it through better-sqlite3: column     *)
(* affinity, three-valued comparisons, LIKE, ORDER BY _rowid, LIMIT and    *)
(* OFFSET.                                                                 *)
(***************************************************************************)
Min(a, b) == IF a < b THEN a ELSE b
Max(a, b) == IF a > b THEN a ELSE b

\* Drop the first k elements; keep the first k elements.
Drop(seq, k) == IF k >= Len(seq) THEN <<>> ELSE SubSeq(seq, k + 1, Len(seq))
Take(seq, k) == IF k <= 0 THEN <<>> ELSE SubSeq(seq, 1, Min(k, Len(seq)))

ColumnType(table, column) ==
    IF column = "_rowid" THEN "Int" ELSE FieldType(table, column)

IsIntegerText(str) ==
    /\ Len(str) > 0
    /\ \A i \in 1..Len(str) : IsDigit(str[i])

\* The column's affinity applied to a bound parameter before a comparison.
ApplyAffinity(colType, param) ==
    IF colType \in {"String", "Date"}
    THEN (IF param.t = "int" THEN StrV(String(param)) ELSE param)
    ELSE (IF param.t = "str" /\ IsIntegerText(param.s)
          THEN IntV(DigitsValue(param.s, 0, FALSE)) ELSE param)

\* -1, 0, 1: the order of two non-null values (INTEGER sorts before TEXT).
SqlOrder(a, b) ==
    IF a.t = "int" /\ b.t = "int"
    THEN (IF a.n < b.n THEN -1 ELSE IF a.n = b.n THEN 0 ELSE 1)
    ELSE IF a.t = "str" /\ b.t = "str"
    THEN (IF StrLess(a.s, b.s) THEN -1 ELSE IF a.s = b.s THEN 0 ELSE 1)
    ELSE IF a.t = "int" THEN -1 ELSE 1

Bool3(b) == IF b THEN "T" ELSE "F"

\* OR and AND of SQL's three-valued logic.
Or3(a, b) == IF a = "T" \/ b = "T" THEN "T" ELSE IF a = "F" /\ b = "F" THEN "F" ELSE "N"
And3(a, b) == IF a = "F" \/ b = "F" THEN "F" ELSE IF a = "T" /\ b = "T" THEN "T" ELSE "N"

\* column <op> ? : NULL when either side is NULL.
SqlCompare(op, colType, stored, param) ==
    IF stored.t = "null" \/ param.t = "null" THEN "N"
    ELSE LET c == SqlOrder(stored, ApplyAffinity(colType, param))
         IN  CASE op = "=" -> Bool3(c = 0)
               [] op = "!=" -> Bool3(c # 0)
               [] op = ">" -> Bool3(c > 0)
               [] op = ">=" -> Bool3(c >= 0)
               [] op = "<" -> Bool3(c < 0)
               [] OTHER -> Bool3(c <= 0)

\* column IN (?, ..., ?)
SqlIn(colType, stored, operands) ==
    IF stored.t = "null" THEN "N"
    ELSE IF \E i \in 1..Len(operands) :
                SqlCompare("=", colType, stored, operands[i]) = "T" THEN "T"
    ELSE IF \E i \in 1..Len(operands) : operands[i].t = "null" THEN "N"
    ELSE "F"

\* text LIKE pattern: % matches any run, _ any one character, letters
\* match without regard to ASCII case.
RECURSIVE LikeMatch(_, _)
LikeMatch(pattern, text) ==
    IF pattern = <<>> THEN text = <<>>
    ELSE IF Head(pattern) = "%"
    THEN LikeMatch(Tail(pattern), text)
         \/ (text # <<>> /\ LikeMatch(pattern, Tail(text)))
    ELSE IF text = <<>> THEN FALSE
    ELSE /\ (Head(pattern) = "_" \/ LowerChar(Head(pattern)) = LowerChar(Head(text)))
         /\ LikeMatch(Tail(pattern), Tail(text))

SqlLike(stored, pattern) ==
    IF stored.t = "null" \/ pattern.t = "null" THEN "N"
    ELSE Bool3(LikeMatch(String(pattern), String(stored)))

\* One condition on one row, its parameters being params[first ...].
EvalCond(table, cond, row, params, first) ==
    CASE cond.k = "false" -> "F"
      [] cond.k = "isnull" -> Bool3(row[cond.f].t = "null")
      [] cond.k = "notnull" -> Bool3(row[cond.f].t # "null")
      [] cond.k = "cmp" ->
            SqlCompare(cond.op, ColumnType(table, cond.f), row[cond.f], params[first])
      [] cond.k = "cmpOr" ->
            Or3(SqlCompare(cond.op, ColumnType(table, cond.f), row[cond.f], params[first]),
                SqlCompare(cond.op, ColumnType(table, cond.f), row[cond.f],
                           params[first + 1]))
      [] cond.k = "cmpAnd" ->
            And3(SqlCompare(cond.op, ColumnType(table, cond.f), row[cond.f], params[first]),
                 SqlCompare(cond.op, ColumnType(table, cond.f), row[cond.f],
                            params[first + 1]))
      [] cond.k = "in" ->
            SqlIn(ColumnType(table, cond.f), row[cond.f],
                  SubSeq(params, first, first + cond.nph - 1))
      [] OTHER -> SqlLike(row[cond.f], params[first])

RECURSIVE Flatten(_)
Flatten(groups) ==
    IF groups = <<>> THEN <<>> ELSE Head(groups) \o Flatten(Tail(groups))

RECURSIVE CountPlaceholders(_)
CountPlaceholders(conds) ==
    IF conds = <<>> THEN 0 ELSE Head(conds).nph + CountPlaceholders(Tail(conds))

\* The WHERE clause is a conjunction of conjunctions: a row is selected
\* when every condition is true (neither false nor NULL).
RowSelected(q, row) ==
    LET conds == Flatten(q.where)
    IN  \A i \in 1..Len(conds) :
            EvalCond(q.table, conds[i], row, q.params,
                     1 + CountPlaceholders(SubSeq(conds, 1, i - 1))) = "T"

\* A condition on a column the table does not have fails to prepare, and
\* so does an OFFSET without a LIMIT.
Prepares(q) ==
    /\ \A i \in 1..Len(Flatten(q.where)) :
          Flatten(q.where)[i].k = "false"
          \/ Flatten(q.where)[i].f \in {"_rowid"} \cup FieldNames(q.table)
    /\ q.offsetParam => q.limitParam

\* LIMIT ? OFFSET ?: a negative limit is no limit, a negative offset is 0.
SqlPage(rows, q) ==
    LET nWhere == CountPlaceholders(Flatten(q.where))
        limit == IF q.limitParam THEN q.params[nWhere + 1].n ELSE -1
        offset == IF q.offsetParam THEN q.params[nWhere + 2].n ELSE 0
        skipped == Drop(rows, Max(offset, 0))
        paged == IF limit < 0 THEN skipped ELSE Take(skipped, limit)
    IN  IF q.limitOne THEN Take(paged, 1) ELSE paged

\* database.query(sql, params) on the stored tables: the rows (in _rowid
\* order), or ok = FALSE when the statement throws.
Query(db, q) ==
    IF ~Prepares(q) THEN [ok |-> FALSE, rows |-> <<>>, count |-> 0]
    ELSE LET selected == SelectSeq(db[q.table], LAMBDA row : RowSelected(q, row))
         IN  IF q.kind = "count"
             THEN [ok |-> TRUE, rows |-> <<>>, count |-> Len(selected)]
             ELSE [ok |-> TRUE, rows |-> SqlPage(selected, q), count |-> 0]

(***************************************************************************)
(* filters.ts: the in-memory filter engine.                                *)
(***************************************************************************)
\* item[fieldName]
GetField(item, fieldName) ==
    IF fieldName \in DOMAIN item THEN item[fieldName] ELSE Undefined

\* ToNumber of JavaScript, for the relational operators.
ToNumber(v) ==
    CASE v.t = "int" -> [nan |-> FALSE, n |-> v.n]
      [] v.t = "bool" -> [nan |-> FALSE, n |-> v.n]
      [] v.t = "null" -> [nan |-> FALSE, n |-> 0]
      [] v.t = "date" -> [nan |-> FALSE, n |-> GetTime(v.n)]
      [] v.t = "str" -> IF v.s = <<>> THEN [nan |-> FALSE, n |-> 0]
                        ELSE IF IsIntegerText(v.s)
                        THEN [nan |-> FALSE, n |-> DigitsValue(v.s, 0, FALSE)]
                        ELSE [nan |-> TRUE, n |-> 0]
      [] OTHER -> [nan |-> TRUE, n |-> 0]

\* a < b of JavaScript: by code unit for two strings, by number otherwise.
JsLess(a, b) ==
    IF a.t = "str" /\ b.t = "str" THEN StrLess(a.s, b.s)
    ELSE /\ ~ToNumber(a).nan
         /\ ~ToNumber(b).nan
         /\ ToNumber(a).n < ToNumber(b).n

\* a === b
StrictEquals(a, b) == a.t = b.t /\ a.n = b.n /\ a.s = b.s

isEqual(value, compareValue) ==
    IF IsNullish(value) THEN IsNullish(compareValue)
    ELSE StrictEquals(value, compareValue)

isGreaterThan(value, compareValue) ==
    IF IsNullish(value) THEN FALSE ELSE JsLess(compareValue, value)

isGreaterThanOrEqual(value, compareValue) ==
    isEqual(value, compareValue) \/ isGreaterThan(value, compareValue)

\* isLessThan without its first line: null < 1 is true in JavaScript.
isLessThanNoNullCheck(value, compareValue) == JsLess(value, compareValue)

isLessThan(value, compareValue) ==
    IF IsNullish(value) THEN FALSE ELSE JsLess(value, compareValue)

isLessThanOrEqual(value, compareValue) ==
    isEqual(value, compareValue) \/ isLessThan(value, compareValue)

isInArray(value, array) ==
    IF IsNullish(value) THEN \E i \in 1..Len(array) : IsNullish(array[i])
    ELSE \E i \in 1..Len(array) : StrictEquals(array[i], value)

RECURSIVE IsPrefix(_, _)
IsPrefix(p, str) ==
    IF p = <<>> THEN TRUE
    ELSE IF str = <<>> THEN FALSE
    ELSE Head(p) = Head(str) /\ IsPrefix(Tail(p), Tail(str))

containsString(value, searchString) ==
    IF IsNullish(value) THEN FALSE
    ELSE \E k \in 0..Len(String(value)) :
            IsPrefix(String(searchString), Drop(String(value), k))

startsWithString(value, searchString) ==
    IF IsNullish(value) THEN FALSE
    ELSE IsPrefix(String(searchString), String(value))

endsWithString(value, searchString) ==
    IF IsNullish(value) THEN FALSE
    ELSE /\ Len(String(searchString)) <= Len(String(value))
         /\ Drop(String(value), Len(String(value)) - Len(String(searchString)))
               = String(searchString)

\* matchesFieldFilter rejecting a filter object that has none of the ten
\* operators.
matchesFieldFilterKnownOnly(value, filter) ==
    /\ filter.t = "ops"
    /\ DOMAIN filter.o \cap {"eq", "ne", "gt", "gte", "lt", "lte", "in",
                             "contains", "startsWith", "endsWith"} # {}
    /\ Has(filter, "eq") => isEqual(value, filter.o["eq"])
    /\ Has(filter, "ne") => ~isEqual(value, filter.o["ne"])
    /\ Has(filter, "gt") => isGreaterThan(value, filter.o["gt"])
    /\ Has(filter, "gte") => isGreaterThanOrEqual(value, filter.o["gte"])
    /\ Has(filter, "lt") => isLessThan(value, filter.o["lt"])
    /\ Has(filter, "lte") => isLessThanOrEqual(value, filter.o["lte"])
    /\ Has(filter, "in") => isInArray(value, filter.o["in"])
    /\ Has(filter, "contains") => containsString(value, filter.o["contains"])
    /\ Has(filter, "startsWith") => startsWithString(value, filter.o["startsWith"])
    /\ Has(filter, "endsWith") => endsWithString(value, filter.o["endsWith"])

matchesFieldFilter(value, filter) ==
    /\ Has(filter, "eq") => isEqual(value, filter.o["eq"])
    /\ Has(filter, "ne") => ~isEqual(value, filter.o["ne"])
    /\ Has(filter, "gt") => isGreaterThan(value, filter.o["gt"])
    /\ Has(filter, "gte") => isGreaterThanOrEqual(value, filter.o["gte"])
    /\ Has(filter, "lt") => isLessThan(value, filter.o["lt"])
    /\ Has(filter, "lte") => isLessThanOrEqual(value, filter.o["lte"])
    /\ Has(filter, "in") => isInArray(value, filter.o["in"])
    /\ Has(filter, "contains") => containsString(value, filter.o["contains"])
    /\ Has(filter, "startsWith") => startsWithString(value, filter.o["startsWith"])
    /\ Has(filter, "endsWith") => endsWithString(value, filter.o["endsWith"])

\* The loop returning at the first entry that matches instead of the first
\* that does not.
ItemMatchesSome(item, entries) ==
    \E i \in 1..Len(entries) :
        NumKeys(entries[i].val) = 0
        \/ matchesFieldFilter(GetField(item, entries[i].key), entries[i].val)

\* The loop over Object.entries(filters) on one item: an entry with no key
\* is skipped, every other one must match.
ItemMatches(item, entries) ==
    \A i \in 1..Len(entries) :
        NumKeys(entries[i].val) = 0
        \/ matchesFieldFilter(GetField(item, entries[i].key), entries[i].val)

applyFilters(data, filters) ==
    IF ~filters.def \/ Len(filters.e) = 0 THEN data
    ELSE SelectSeq(data, LAMBDA item : ItemMatches(item, filters.e))

(***************************************************************************)
(* Relationship field names.  Names are compared whole everywhere else;    *)
(* here they are taken apart into characters and put together again.       *)
(***************************************************************************)
KnownNames ==
    {"Users", "Orders", "users", "orders", "userss", "orderss",
     "User", "Order", "user", "order"}

Chars(name) ==
    CASE name = "User" -> <<"U", "s", "e", "r">>
      [] name = "Order" -> <<"O", "r", "d", "e", "r">>
      [] name = "user" -> <<"u", "s", "e", "r">>
      [] name = "order" -> <<"o", "r", "d", "e", "r">>
      [] name = "Users" -> <<"U", "s", "e", "r", "s">>
      [] name = "Orders" -> <<"O", "r", "d", "e", "r", "s">>
      [] name = "users" -> <<"u", "s", "e", "r", "s">>
      [] name = "orders" -> <<"o", "r", "d", "e", "r", "s">>
      [] name = "userss" -> <<"u", "s", "e", "r", "s", "s">>
      [] name = "orderss" -> <<"o", "r", "d", "e", "r", "s", "s">>

NameOf(chars) == CHOOSE name \in KnownNames : Chars(name) = chars

\* references.charAt(0).toLowerCase() + references.slice(1), then an 's'
\* for one-to-many unless the name ends with one.
DerivedFieldName(references, type) ==
    LET cs == Chars(references)
        baseName == IF cs = <<>> THEN <<>> ELSE <<LowerChar(Head(cs))>> \o Tail(cs)
        endsWithS == baseName # <<>> /\ baseName[Len(baseName)] = "s"
    IN  IF type = "one-to-many" /\ ~endsWithS
        THEN NameOf(Append(baseName, "s"))
        ELSE NameOf(baseName)

\* getRelationshipFieldName of filters.ts appending an 's' whatever the
\* cardinality.
FiltersGetRelationshipFieldNamePlural(relationship) ==
    DerivedFieldName(relationship.references, "one-to-many")

\* getRelationshipFieldName of filters.ts
FiltersGetRelationshipFieldName(relationship) ==
    DerivedFieldName(relationship.references, relationship.type)

\* SchemaGenerator.getRelationshipFieldName
getRelationshipFieldName(relationship) ==
    DerivedFieldName(relationship.references, relationship.type)

(***************************************************************************)
(* applyNestedFilters.  database.query may throw: faults is the set of     *)
(* ordinals, among the queries of the running call, of those that do.  An  *)
(* accumulator carries the queries issued (nq), the errors logged (nlog)   *)
(* and the parent values looked up, in order.                              *)
(***************************************************************************)
\* relationshipFieldMap.get(key): the last relationship with that name.
RelationshipFor(key, relationships) ==
    LET hits == {i \in 1..Len(relationships) :
                    FiltersGetRelationshipFieldName(relationships[i]) = key}
    IN  IF hits = {} THEN [found |-> FALSE, rel |-> relationships]
        ELSE [found |-> TRUE,
              rel |-> <<relationships[CHOOSE i \in hits : \A j \in hits : j <= i]>>]

\* The entries kept as regular filters / as relationship filters.
RegularFilters(entries, relationships) ==
    SelectSeq(entries, LAMBDA en :
        NumKeys(en.val) > 0 /\ ~RelationshipFor(en.key, relationships).found)

RelationshipFilters(entries, relationships) ==
    SelectSeq(entries, LAMBDA en :
        NumKeys(en.val) > 0 /\ RelationshipFor(en.key, relationships).found)

\* Object.entries(relationshipFilter): the nested filter's entries.
NestedEntries(relationshipFilter) ==
    IF relationshipFilter.t = "filter" THEN relationshipFilter.e ELSE <<>>

\* SELECT * FROM <references> WHERE <referenceField> = ?
RelatedRecordsQuery(relationship, parentValue) ==
    [ kind |-> "select", table |-> relationship.references,
      where |-> << <<Cond("cmp", relationship.referenceField, "=", 1)>> >>,
      orderBy |-> FALSE, limitParam |-> FALSE, offsetParam |-> FALSE,
      limitOne |-> FALSE, params |-> <<parentValue>> ]

\* relatedRecords.every(...): every related record matches.
AnyRelatedMatchesAll(relatedRecords, relationshipFilter) ==
    \A i \in 1..Len(relatedRecords) :
        ItemMatches(relatedRecords[i], NestedEntries(relationshipFilter))

AnyRelatedMatches(relatedRecords, relationshipFilter) ==
    \E i \in 1..Len(relatedRecords) :
        ItemMatches(relatedRecords[i], NestedEntries(relationshipFilter))

\* The catch block returning true: a failed lookup keeps the parent.
hasMatchingRelatedRecordKeepOnError(parentRecord, relationship, relationshipFilter, db, faults, acc) ==
    LET parentValue == GetField(parentRecord, relationship.field)
    IN  IF IsNullish(parentValue) THEN [acc EXCEPT !.match = FALSE]
        ELSE LET res == Query(db, RelatedRecordsQuery(relationship, parentValue))
                 threw == (acc.nq + 1) \in faults \/ ~res.ok
             IN  [ match |-> \/ threw
                             \/ /\ Len(res.rows) > 0
                                /\ AnyRelatedMatches(res.rows, relationshipFilter),
                   nq |-> acc.nq + 1,
                   nlog |-> acc.nlog + (IF threw THEN 1 ELSE 0),
                   lookups |-> Append(acc.lookups, parentValue) ]

\* One call: [match, nq, nlog, lookups] after it, from acc before it.
hasMatchingRelatedRecord(parentRecord, relationship, relationshipFilter, db, faults, acc) ==
    LET parentValue == GetField(parentRecord, relationship.field)
    IN  IF IsNullish(parentValue) THEN [acc EXCEPT !.match = FALSE]
        ELSE LET res == Query(db, RelatedRecordsQuery(relationship, parentValue))
                 threw == (acc.nq + 1) \in faults \/ ~res.ok
             IN  [ match |-> /\ ~threw
                             /\ Len(res.rows) > 0
                             /\ AnyRelatedMatches(res.rows, relationshipFilter),
                   nq |-> acc.nq + 1,
                   nlog |-> acc.nlog + (IF threw THEN 1 ELSE 0),
                   lookups |-> Append(acc.lookups, parentValue) ]

\* The loop over relationshipFilters for one item: it stops at the first
\* relationship filter that has no matching related record.  (Each call's
\* result r is drawn from a one-element set, so it is computed once.)
RECURSIVE RelationshipLoop(_, _, _, _, _, _)
RelationshipLoop(item, relFilters, relationships, db, faults, acc) ==
    IF relFilters = <<>> THEN [acc EXCEPT !.match = TRUE]
    ELSE CHOOSE result \in
           { IF ~r.match THEN r
             ELSE RelationshipLoop(item, Tail(relFilters), relationships, db, faults, r) :
               r \in { hasMatchingRelatedRecord(
                           item,
                           RelationshipFor(Head(relFilters).key, relationships).rel[1],
                           Head(relFilters).val, db, faults, acc) } } : TRUE

\* data.filter(item => ...): regular filters first, then the relationship
\* filters.
RECURSIVE NestedFilterLoop(_, _, _, _, _, _, _)
NestedFilterLoop(data, regular, relFilters, relationships, db, faults, acc) ==
    IF data = <<>> THEN acc
    ELSE CHOOSE result \in
           { NestedFilterLoop(Tail(data), regular, relFilters, relationships,
                              db, faults, next) :
               next \in
                 { [ out |-> IF r.match THEN Append(acc.out, Head(data)) ELSE acc.out,
                     match |-> FALSE, nq |-> r.nq, nlog |-> r.nlog,
                     lookups |-> r.lookups ] :
                     r \in { IF ItemMatches(Head(data), regular)
                             THEN RelationshipLoop(Head(data), relFilters,
                                                   relationships, db, faults, acc)
                             ELSE [acc EXCEPT !.match = FALSE] } } } : TRUE

\* The relationship filters run on every item and the regular filters on
\* what they keep.
applyNestedFiltersLookupFirst(data, filters, relationships, db, faults, nq, nlog) ==
    LET start == [out |-> <<>>, match |-> FALSE, nq |-> nq, nlog |-> nlog,
                  lookups |-> <<>>]
    IN  IF ~filters.def \/ Len(filters.e) = 0 THEN [start EXCEPT !.out = data]
        ELSE CHOOSE result \in
               { [r EXCEPT !.out = SelectSeq(r.out, LAMBDA item :
                        ItemMatches(item, RegularFilters(filters.e, relationships)))] :
                   r \in { NestedFilterLoop(data, <<>>,
                               RelationshipFilters(filters.e, relationships),
                               relationships, db, faults, start) } } : TRUE

\* applyNestedFilters(data, filters, relationships, database, tableName),
\* started with nq queries and nlog logged errors already behind it.
applyNestedFilters(data, filters, relationships, db, faults, nq, nlog) ==
    LET start == [out |-> <<>>, match |-> FALSE, nq |-> nq, nlog |-> nlog,
                  lookups |-> <<>>]
    IN  IF ~filters.def \/ Len(filters.e) = 0 THEN [start EXCEPT !.out = data]
        ELSE NestedFilterLoop(data,
                              RegularFilters(filters.e, relationships),
                              RelationshipFilters(filters.e, relationships),
                              relationships, db, faults, start)

(***************************************************************************)
(* SchemaGenerator: the root query resolver and resolveRelationship.       *)
(***************************************************************************)
MaxLimit == 1000
DefaultLimit == 100

\* x || d on an optional number: undefined and 0 give d.
OrDefault(x, d) == IF ~x.def \/ x.n = 0 THEN d ELSE x.n

\* x ?? d on an optional number.
Coalesce(x, d) == IF ~x.def THEN d ELSE x.n

\* Array.prototype.slice(start, end): a negative index counts from the end.
JsSlice(seq, start, end) ==
    LET len == Len(seq)
        from == IF start < 0 THEN Max(len + start, 0) ELSE Min(start, len)
        to == IF end < 0 THEN Max(len + end, 0) ELSE Min(end, len)
    IN  IF to <= from THEN <<>> ELSE SubSeq(seq, from + 1, to)

\* Object.keys(filters).every(...): memory only when each key names a
\* relationship.
hasRelationshipFiltersEvery(filters, relationships) ==
    IF ~filters.def \/ Len(relationships) = 0 THEN FALSE
    ELSE \A i \in 1..Len(filters.e) : \E j \in 1..Len(relationships) :
            filters.e[i].key = getRelationshipFieldName(relationships[j])

hasRelationshipFilters(filters, relationships) ==
    IF ~filters.def \/ Len(relationships) = 0 THEN FALSE
    ELSE \E i \in 1..Len(filters.e) : \E j \in 1..Len(relationships) :
            filters.e[i].key = getRelationshipFieldName(relationships[j])

Envelope(items, totalCount, offset, limit) ==
    [items |-> items, totalCount |-> totalCount, offset |-> offset, limit |-> limit]

\* What a call leaves behind: whether it threw, what it returned, the
\* database.query calls it made, the errors it logged.
Outcome(threw, result, path, nq, nlog, lookups) ==
    [threw |-> threw, result |-> result, path |-> path, nq |-> nq, nlog |-> nlog,
     lookups |-> lookups]

\* The relationship branch of the resolver: load the whole table, filter
\* in memory, slice.  gen = "js" wraps it in try / catch.  (allData and
\* filtered are drawn from one-element sets, so each is computed once.)
MemoryPath(gen, rev, table, filter, offset, limit, db, faults) ==
    CHOOSE outcome \in
      { IF 1 \in faults \/ ~allData.ok
        THEN Outcome(gen = "ts", Envelope(<<>>, 0, offset, limit), "memory", 1,
                     IF gen = "js" THEN 1 ELSE 0, <<>>)
        ELSE CHOOSE done \in
               { Outcome(FALSE,
                         Envelope(StripAll(JsSlice(filtered.out, offset, offset + limit)),
                                  Len(filtered.out), offset, limit),
                         "memory", filtered.nq, filtered.nlog, filtered.lookups) :
                   filtered \in { applyNestedFilters(allData.rows, filter,
                                                     Relationships(table),
                                                     db, faults, 1, 0) } } : TRUE :
          allData \in { Query(db, buildSelectQuery(table, NoFilter,
                                                   NoPagination, rev)) } } : TRUE

\* The SQL branch: the count query, then the select query.  (countResult
\* and items are drawn from one-element sets, so each is computed once.)
SqlPath(gen, rev, table, filter, offset, limit, db, faults) ==
    CHOOSE outcome \in
      { LET countThrew == 1 \in faults \/ ~countResult.ok
            selectThrew == 2 \in faults \/ ~items.ok
        IN  IF countThrew \/ selectThrew
            THEN Outcome(gen = "ts", Envelope(<<>>, 0, offset, limit), "sql",
                         IF countThrew THEN 1 ELSE 2, IF gen = "js" THEN 1 ELSE 0, <<>>)
            ELSE Outcome(FALSE,
                         Envelope(StripAll(items.rows), countResult.count, offset, limit),
                         "sql", 2, 0, <<>>) :
          countResult \in { Query(db, buildCountQuery(table, filter, rev)) },
          items \in { Query(db, buildSelectQuery(table, filter,
                                                 Pagination(Num(offset), Num(limit)),
                                                 rev)) } } : TRUE

\* createQueryField(csvMeta).resolve(_, args)
RootResolve(gen, rev, table, filter, pagination, db, faults) ==
    LET offset == OrDefault(pagination.offset, 0)
        limit == Min(OrDefault(pagination.limit, DefaultLimit), MaxLimit)
    IN  IF hasRelationshipFilters(filter, Relationships(table))
        THEN MemoryPath(gen, rev, table, filter, offset, limit, db, faults)
        ELSE SqlPath(gen, rev, table, filter, offset, limit, db, faults)

\* resolveRelationship(parent, relationship, filter, pagination).  The
\* result is null, one row (one-to-one) or an array of rows (one-to-many).
Resolved(threw, shape, rows, nq) ==
    [threw |-> threw, shape |-> shape, rows |-> rows, nq |-> nq]

\* resolveRelationship answering an empty array for a one-to-many
\* relationship of a parent whose local field is null.
resolveRelationshipEmptyForNull(parent, relationship, filter, pagination, db, faults) ==
    LET parentValue == GetField(parent, relationship.field)
        offset == Max(Coalesce(pagination.offset, 0), 0)
        limit == IF pagination.limit.def
                 THEN Min(Max(pagination.limit.n, 0), MaxLimit)
                 ELSE DefaultLimit
    IN  IF IsNullish(parentValue) /\ relationship.type = "one-to-one"
        THEN Resolved(FALSE, "null", <<>>, 0)
        ELSE IF relationship.type # "one-to-one" /\ (limit = 0 \/ IsNullish(parentValue))
        THEN Resolved(FALSE, "array", <<>>, 0)
        ELSE CHOOSE resolved \in
               { LET threw == 1 \in faults \/ ~results.ok
                 IN  IF relationship.type = "one-to-one"
                     THEN IF threw THEN Resolved(TRUE, "null", <<>>, 1)
                          ELSE IF Len(results.rows) = 0
                          THEN Resolved(FALSE, "null", <<>>, 1)
                          ELSE Resolved(FALSE, "object", <<StripRowid(results.rows[1])>>, 1)
                     ELSE IF threw THEN Resolved(TRUE, "null", <<>>, 1)
                     ELSE Resolved(FALSE, "array", StripAll(results.rows), 1) :
                   results \in { Query(db, buildRelationshipQuery(
                                             "", relationship.field,
                                             relationship.references,
                                             relationship.referenceField, parentValue,
                                             relationship.type = "one-to-many")) } } : TRUE

\* (results is drawn from a one-element set, so it is computed once.)
resolveRelationship(parent, relationship, filter, pagination, db, faults) ==
    LET parentValue == GetField(parent, relationship.field)
        offset == Max(Coalesce(pagination.offset, 0), 0)
        limit == IF pagination.limit.def
                 THEN Min(Max(pagination.limit.n, 0), MaxLimit)
                 ELSE DefaultLimit
    IN  IF IsNullish(parentValue) THEN Resolved(FALSE, "null", <<>>, 0)
        ELSE IF relationship.type # "one-to-one" /\ limit = 0
        THEN Resolved(FALSE, "array", <<>>, 0)
        ELSE CHOOSE resolved \in
               { LET threw == 1 \in faults \/ ~results.ok
                 IN  IF relationship.type = "one-to-one"
                     THEN IF threw THEN Resolved(TRUE, "null", <<>>, 1)
                          ELSE IF Len(results.rows) = 0
                          THEN Resolved(FALSE, "null", <<>>, 1)
                          ELSE Resolved(FALSE, "object", <<StripRowid(results.rows[1])>>, 1)
                     ELSE IF threw THEN Resolved(TRUE, "null", <<>>, 1)
                     ELSE Resolved(FALSE, "array", StripAll(results.rows), 1) :
                   results \in { Query(db, buildRelationshipQuery(
                                             "", relationship.field,
                                             relationship.references,
                                             relationship.referenceField, parentValue,
                                             relationship.type = "one-to-many")) } } : TRUE

(***************************************************************************)
(* The inputs of the calls.                                                *)
(***************************************************************************)
ab == <<"a", "b">>
Ab == <<"A", "b">>

\* One operator on one field.
One(field, op, operand) == <<Entry(field, Ops(op :> operand))>>

ScalarOps == {"eq", "ne", "gt", "gte", "lt", "lte"}
StringOps == {"contains", "startsWith", "endsWith"}

\* The ends of the ranges {id: {gte: v1, lt: v2}}, around the stored ids,
\* and of the ranges on created_date: the midnights of the calendar.
RangeEnds == 0..3
DateEnds == {i \in DateTicks : i % 2 = 0}

\* A date operand as the Date scalar parses it, or as the text a direct
\* caller of the builder passes.
DateOperand(i, form) ==
    IF form = "Date" THEN DateV(i) ELSE StrV(SplitT(toISOString(i)))

DateRange(v1, v2, form) ==
    <<Entry("created_date",
            Ops([gte |-> DateOperand(v1, form), lt |-> DateOperand(v2, form)]))>>

\* Filters on the plain fields of Users: every operator, with operands of
\* the field's GraphQL type or null.
UserFieldFilters ==
    { One("name", op, v) : op \in ScalarOps, v \in {StrV(ab), StrV(Ab), Null} }
    \cup { One("id", op, v) : op \in ScalarOps, v \in {IntV(1), Null} }
    \cup { One("is_active", op, v) : op \in ScalarOps, v \in {BoolV(TRUE), BoolV(FALSE)} }
    \cup { One("is_active", op, Null) : op \in {"eq", "ne"} }
    \cup { One("name", "in", l) : l \in {<<>>, <<Null, StrV(ab)>>, <<StrV(Ab)>>} }
    \cup { One("id", "in", l) : l \in {<<>>, <<IntV(1), IntV(2)>>} }
    \cup { One("is_active", "in", l) : l \in {<<BoolV(TRUE)>>} }
    \cup { One("name", op, StrV(v)) : op \in StringOps, v \in {<<"a">>, <<"b">>} }
    \cup { One("id", "contains", StrV(<<"1">>)) }
    \cup { <<Entry("id", Ops([gte |-> IntV(r[1]), lt |-> IntV(r[2])]))>> :
               r \in {q \in RangeEnds \X RangeEnds : q[1] < q[2]} }
    \cup { DateRange(r[1], r[2], form) :
               r \in {q \in DateEnds \X DateEnds : q[1] < q[2]},
               form \in {"Date", "text"} }
    \cup { One("created_date", op, DateV(i)) :
               op \in {"gt", "gte", "lt", "lte"}, i \in DateEnds }
    \cup { <<Entry("id", Ops([gte |-> IntV(1), lt |-> IntV(2)]))>>,
           <<Entry("name", Ops([ne |-> StrV(ab)])), Entry("id", Ops([eq |-> IntV(2)]))>>,
           <<Entry("id", Ops([gte |-> IntV(1)])), Entry("is_active", Ops([eq |-> BoolV(TRUE)]))>>,
           <<Entry("name", Ops([eq |-> StrV(ab)])), Entry("id", Ops([eq |-> IntV(2)]))>>,
           <<Entry("id", Ops([gte |-> IntV(1), lte |-> IntV(2)])),
             Entry("name", Ops([contains |-> StrV(<<"b">>)]))>>,
           <<Entry("name", Ops([in |-> <<>>])), Entry("id", Ops([eq |-> IntV(1)]))>>,
           <<Entry("id", Ops([in |-> <<IntV(1), IntV(2)>>, ne |-> IntV(1)]))>>,
           <<Entry("name", Ops(NoOps))>>,
           <<Entry("name", Ops([foo |-> IntV(1)]))>>,
           <<>> }

FilterArgs == {NoFilter} \cup {Filter(e) : e \in UserFieldFilters}

\* Stored tables of at most MaxRows rows each, as insertData leaves them.
RECURSIVE StoredSeqs(_, _)
StoredSeqs(table, k) ==
    IF k = 0 THEN {<<>>}
    ELSE StoredSeqs(table, k - 1)
         \cup { Append(rows, StoredRow(table, Len(rows) + 1, raw)) :
                  rows \in {r \in StoredSeqs(table, k - 1) : Len(r) = k - 1},
                  raw \in RawRows(table) }

NoCall == [kind |-> "none"]

(***************************************************************************)
(* The server process after startServer: the module-level database and     *)
(* apolloServer, the DatabaseManager connections that are open, the        *)
(* ApolloServer objects with the connection their SchemaGenerator holds,   *)
(* the routers mounted on /graphql in the order of applyMiddleware, and    *)
(* the position of each request that is being handled.  0 stands for null. *)
(***************************************************************************)
Refreshes == 1..MaxRefreshes
QueryIds == 1..MaxQueries

NoTables == [t \in TableNames |-> <<>>]

\* A SchemaGenerator after its constructor: no dataset declared, the maps
\* types, filterTypes, resultTypes and schemas empty, no schema built.
IdleGenerator ==
    [ pc |-> "idle", metadata |-> <<>>, empty |-> {}, k |-> 0,
      fault |-> "none", faultAt |-> 0, raised |-> FALSE,
      schemas |-> <<>>, types |-> {}, filterTypes |-> {}, resultTypes |-> {},
      schema |-> [query |-> <<>>, objects |-> <<>>, filters |-> <<>>] ]

IdleRefresh == [pc |-> "idle", db |-> 0, k |-> 0, server |-> 0]
IdleQuery == [pc |-> "idle", db |-> 0, snap |-> NoTables, root |-> <<>>, related |-> <<>>]

Started ==
    [ database |-> 1, apolloServer |-> 1, open |-> {1}, ndb |-> 1,
      servers |-> << [db |-> 1, phase |-> "started"] >>,
      mounted |-> <<1>>,
      refresh |-> [r \in Refreshes |-> IdleRefresh],
      query |-> [q \in QueryIds |-> IdleQuery] ]

(***************************************************************************)
(* The filter functions on their own, as the repository's filter tests     *)
(* call them: buildSelectQuery + database.query, and applyFilters, on the  *)
(* rows of Users.                                                          *)
(***************************************************************************)
InitFilters ==
    /\ tables \in {[Users |-> rows, Orders |-> <<>>] : rows \in StoredSeqs("Users", MaxRows)}
    /\ builderRev \in {1, 2}
    /\ generator = "ts"
    /\ pc = "idle"
    /\ call = NoCall
    /\ srv = Started
    /\ sg = IdleGenerator

\* database.query(buildSelectQuery('Users', filter))
SelectQuery(filter) ==
    /\ pc = "idle"
    /\ LET q == buildSelectQuery("Users", filter, NoPagination, builderRev)
           res == Query(tables, q)
       IN  call' = [kind |-> "select", filter |-> filter, query |-> q,
                    threw |-> ~res.ok, rows |-> res.rows]
    /\ pc' = "done"
    /\ UNCHANGED <<tables, builderRev, generator, srv, sg>>

\* applyFilters(rows, filter)
ApplyFilters(filter) ==
    /\ pc = "idle"
    /\ call' = [kind |-> "applyFilters", filter |-> filter,
                rows |-> applyFilters(tables["Users"], filter)]
    /\ pc' = "done"
    /\ UNCHANGED <<tables, builderRev, generator, srv, sg>>

\* The caller has the result; the next call can start.
Return ==
    /\ pc = "done"
    /\ pc' = "idle"
    /\ call' = NoCall
    /\ UNCHANGED <<tables, builderRev, generator, srv, sg>>

\* Two relationships of Users for applyNestedFilters: to Users itself by
\* id (field "users") and to Orders by name (field "orders").
TwoRelationships ==
    << [field |-> "id", references |-> "Users", referenceField |-> "id",
        type |-> "one-to-one"],
       [field |-> "name", references |-> "Orders", referenceField |-> "status",
        type |-> "one-to-many"] >>

NestedFilterArgs ==
    LET users == Entry("users", Nested(One("name", "eq", StrV(ab))))
        orders == Entry("orders", Nested(One("status", "eq", StrV(ab))))
        name == Entry("name", Ops([eq |-> StrV(ab)]))
    IN  { NoFilter, Filter(<<>>), Filter(<<name>>),
          Filter(<<Entry("users", Nested(<<>>))>>),
          Filter(<<users>>), Filter(<<orders>>),
          Filter(<<users, orders>>), Filter(<<orders, users>>),
          Filter(<<name, users>>), Filter(<<users, name>>),
          Filter(<<name, users, orders>>),
          Filter(<<Entry("users", Nested(<<orders>>))>>),
          Filter(<<Entry("users", Nested(<<name, users>>))>>),
          Filter(<<Entry("users", Nested(<<Entry("name", Ops([foo |-> IntV(1)]))>>))>>) }

\* applyNestedFilters(rows of Users, filter, relationships, database, 'Users')
\* as the nested-filtering tests call it.
NestedFilters(filter) ==
    /\ pc = "idle"
    /\ call' = [kind |-> "applyNestedFilters", filter |-> filter,
                relationships |-> TwoRelationships, data |-> tables["Users"],
                out |-> applyNestedFilters(tables["Users"], filter,
                                           TwoRelationships, tables, {}, 0, 0)]
    /\ pc' = "done"
    /\ UNCHANGED <<tables, builderRev, generator, srv, sg>>

NextFilters ==
    \/ \E filter \in FilterArgs : SelectQuery(filter)
    \/ \E filter \in FilterArgs : ApplyFilters(filter)
    \/ \E filter \in NestedFilterArgs : NestedFilters(filter)
    \/ Return

SpecFilters == InitFilters /\ [][NextFilters]_vars

(***************************************************************************)
(* The server: tables are loaded, root queries and relationship fields are *)
(* resolved one call at a time.                                            *)
(***************************************************************************)
\* Filters of root queries, with and without a relationship key.
RootFilters(table) ==
    IF table = "Users"
    THEN { NoFilter,
           Filter(<<>>),
           Filter(One("name", "eq", StrV(ab))),
           Filter(One("name", "ne", StrV(ab))),
           Filter(One("id", "in", <<>>)),
           Filter(<<Entry("orders", Nested(One("status", "eq", StrV(ab))))>>),
           Filter(<<Entry("orders", Nested(One("status", "ne", StrV(ab))))>>),
           Filter(<<Entry("orders", Nested(<<>>))>>),
           Filter(<<Entry("orders", Nested(<<Entry("status", Ops(NoOps))>>))>>),
           Filter(<<Entry("name", Ops([eq |-> StrV(ab)])),
                    Entry("orders", Nested(One("status", "eq", StrV(<<"b">>))))>>) }
    ELSE { NoFilter,
           Filter(One("status", "eq", StrV(ab))),
           Filter(<<Entry("users", Nested(One("name", "eq", StrV(ab))))>>) }

\* Filters of a relationship field: on the rows of the target table.
FieldFilters(table) ==
    IF table = "Users"
    THEN {NoFilter, Filter(One("status", "eq", StrV(<<"b">>)))}
    ELSE {NoFilter, Filter(One("name", "eq", StrV(Ab)))}

\* What GraphQL passes when the argument is left out.
DefaultPagination == Pagination(Num(0), Num(DefaultLimit))

Paginations ==
    {NoPagination}
    \cup { Pagination(offset, limit) :
             offset \in {NoNum, Num(-1), Num(0), Num(1)},
             limit \in {NoNum, Num(-1), Num(0), Num(1), Num(2), Num(2 * MaxLimit)} }

RootRequests ==
    { [table |-> t, filter |-> f, pagination |-> DefaultPagination, faults |-> x] :
        t \in TableNames, f \in RootFilters("Users") \cup RootFilters("Orders"),
        x \in {{}, {1}, {2}} }
    \cup { [table |-> "Users", filter |-> f, pagination |-> p, faults |-> {}] :
             f \in { NoFilter,
                     Filter(<<Entry("orders", Nested(One("status", "ne", StrV(ab))))>>) },
             p \in Paginations }

Init ==
    /\ tables = [Users |-> <<>>, Orders |-> <<>>]
    /\ builderRev \in {1, 2}
    /\ generator \in {"ts", "js"}
    /\ pc = "idle"
    /\ call = NoCall
    /\ srv = Started
    /\ sg = IdleGenerator

\* database.insertData(table, [raw], fields)
InsertData(table, raw) ==
    /\ pc = "idle"
    /\ Len(tables[table]) < MaxRows
    /\ tables' = [tables EXCEPT
                    ![table] = Append(@, StoredRow(table, Len(@) + 1, raw))]
    /\ UNCHANGED <<builderRev, generator, pc, call, srv, sg>>

\* A root query field is resolved.
RootQuery(req) ==
    /\ pc = "idle"
    /\ req.filter \in RootFilters(req.table)
    /\ call' = [kind |-> "root", req |-> req,
                out |-> RootResolve(generator, builderRev, req.table, req.filter,
                                    req.pagination, tables, req.faults)]
    /\ pc' = "done"
    /\ UNCHANGED <<tables, builderRev, generator, srv, sg>>

\* A relationship field of one returned row is resolved.
ResolveRelationship(table, i, filter, pagination, faults) ==
    /\ pc = "idle"
    /\ i \in 1..Len(tables[table])
    /\ pagination = DefaultPagination \/ (faults = {} /\ table = "Users")
    /\ LET parent == StripRowid(tables[table][i])
           relationship == Relationships(table)[1]
       IN  call' = [kind |-> "relationship", table |-> table, parent |-> parent,
                    relationship |-> relationship, filter |-> filter,
                    pagination |-> pagination, faults |-> faults,
                    out |-> resolveRelationship(parent, relationship, filter,
                                                pagination, tables, faults)]
    /\ pc' = "done"
    /\ UNCHANGED <<tables, builderRev, generator, srv, sg>>

\* applyNestedFilters(rows of Users, filter, relationships, database, 'Users')
ApplyNestedFilters(filter, faults) ==
    /\ pc = "idle"
    /\ call' = [kind |-> "nested", filter |-> filter, faults |-> faults,
                data |-> tables["Users"],
                out |-> applyNestedFilters(tables["Users"], filter,
                                           Relationships("Users"), tables, faults, 0, 0)]
    /\ pc' = "done"
    /\ UNCHANGED <<tables, builderRev, generator, srv, sg>>

Next ==
    \/ \E table \in TableNames : \E raw \in RawRows(table) : InsertData(table, raw)
    \/ \E req \in RootRequests : RootQuery(req)
    \/ \E table \in TableNames : \E i \in 1..MaxRows :
         \E filter \in FieldFilters(table) :
           \E pagination \in Paginations \cup {DefaultPagination} :
             \E faults \in {{}, {1}} :
               ResolveRelationship(table, i, filter, pagination, faults)
    \/ \E filter \in RootFilters("Users") : \E faults \in SUBSET {1, 2} :
         ApplyNestedFilters(filter, faults)
    \/ Return

Spec == Init /\ [][Next]_vars

(***************************************************************************)
(* The filter functions: SQL against memory.                               *)
(***************************************************************************)
\* What database.query returns for buildSelectQuery('Users', filter).
SqlRows(filter) ==
    Query(tables, buildSelectQuery("Users", filter, NoPagination, builderRev))

\* C1: for every content of the table and every filter without a
\* relationship key, the rows selected by the SQL that buildSelectQuery
\* builds are exactly the rows applyFilters keeps of the same stored rows.
SqlSelectsWhatApplyFiltersKeeps ==
    (pc = "done" /\ call.kind = "applyFilters") =>
        /\ SqlRows(call.filter).ok
        /\ SqlRows(call.filter).rows = call.rows

\* The filter has an entry {F: {in: []}}.
HasEmptyIn(filter) ==
    /\ filter.def
    /\ \E i \in 1..Len(filter.e) :
          /\ Has(filter.e[i].val, "in")
          /\ Len(filter.e[i].val.o["in"]) = 0

\* C10: a filter with {F: {in: []}} selects no row, whatever the table
\* holds: through the select and the count query and through applyFilters.
EmptyInSelectsNoRow ==
    (pc = "done" /\ HasEmptyIn(call.filter)) =>
        /\ call.rows = <<>>
        /\ call.kind = "select" =>
              Query(tables, buildCountQuery("Users", call.filter, builderRev)).count = 0

(***************************************************************************)
(* Root queries.                                                           *)
(***************************************************************************)
\* The pagination the contract describes: the limit clamped to
\* [0, MaxLimit], DefaultLimit when unset; the offset at least 0.
EffectiveLimit(pagination) ==
    IF pagination.limit.def THEN Min(Max(pagination.limit.n, 0), MaxLimit)
    ELSE DefaultLimit

EffectiveOffset(pagination) ==
    IF pagination.offset.def THEN Max(pagination.offset.n, 0) ELSE 0

\* A root query has returned its envelope.
RootReturned == pc = "done" /\ call.kind = "root" /\ ~call.out.threw

\* C2: on both paths the limit in the envelope lies in [0, 1000] (100 when
\* unset) and the offset is >= 0 (0 when unset); a negative limit or offset
\* counts as 0.
RootPaginationClamped ==
    RootReturned =>
        /\ call.out.result.limit \in 0..MaxLimit
        /\ call.out.result.offset >= 0
        /\ call.out.result.limit = EffectiveLimit(call.req.pagination)
        /\ call.out.result.offset = EffectiveOffset(call.req.pagination)

\* The rows of the table that satisfy the filter, as the path taken
\* evaluates it with no error: the count query, or applyNestedFilters on
\* the whole table.
RowsSatisfying(req) ==
    IF hasRelationshipFilters(req.filter, Relationships(req.table))
    THEN Len(applyNestedFilters(tables[req.table], req.filter,
                                Relationships(req.table), tables, {}, 0, 0).out)
    ELSE Query(tables, buildCountQuery(req.table, req.filter, builderRev)).count

\* C3: totalCount is the number of rows satisfying the filter, whatever the
\* pagination, and items.length = min(limit, max(0, totalCount - offset))
\* for the effective limit and offset.
TotalCountAndPageLength ==
    (RootReturned /\ call.req.faults = {}) =>
        /\ call.out.result.totalCount = RowsSatisfying(call.req)
        /\ Len(call.out.result.items)
             = Min(EffectiveLimit(call.req.pagination),
                   Max(0, call.out.result.totalCount
                            - EffectiveOffset(call.req.pagination)))

\* The row source raised an error on the count query or the full load
\* (query 1) or on the select query of the SQL path (query 2).
RowSourceFailed ==
    /\ pc = "done"
    /\ call.kind = "root"
    /\ \/ 1 \in call.req.faults
       \/ call.out.path = "sql" /\ 2 \in call.req.faults

\* C5: when the row source raises an error during a root query, the
\* resolver does not throw: it logs the error and returns an envelope with
\* items = [] and totalCount = 0.
RootResolverCatchesErrors ==
    RowSourceFailed =>
        /\ ~call.out.threw
        /\ call.out.nlog >= 1
        /\ call.out.result.items = <<>>
        /\ call.out.result.totalCount = 0

\* C9: a root query with limit 0 returns items = [] and makes no call to
\* database.query.
LimitZeroQueriesNothing ==
    ( /\ pc = "done"
      /\ call.kind = "root"
      /\ call.req.pagination.limit.def
      /\ call.req.pagination.limit.n = 0 ) =>
        /\ ~call.out.threw
        /\ call.out.result.items = <<>>
        /\ call.out.nq = 0

(***************************************************************************)
(* Relationship fields.                                                    *)
(***************************************************************************)
\* C6: when the row source raises an error during relationship resolution,
\* resolveRelationship does not throw: it returns null (one-to-one) or []
\* (one-to-many).
RelationshipResolverCatchesErrors ==
    ( /\ pc = "done"
      /\ call.kind = "relationship"
      /\ call.out.nq >= 1
      /\ 1 \in call.faults ) =>
        /\ ~call.out.threw
        /\ IF call.relationship.type = "one-to-one"
           THEN call.out.shape = "null"
           ELSE call.out.shape = "array" /\ call.out.rows = <<>>

\* All rows of the target table related to the parent of the call, in
\* insertion order.
RelatedRows ==
    Query(tables,
          buildRelationshipQuery("", call.relationship.field,
                                 call.relationship.references,
                                 call.relationship.referenceField,
                                 GetField(call.parent, call.relationship.field),
                                 FALSE)).rows

\* resolveRelationship has returned for a parent with a non-null field.
RelationshipReturned ==
    /\ pc = "done"
    /\ call.kind = "relationship"
    /\ call.faults = {}
    /\ ~IsNullish(GetField(call.parent, call.relationship.field))

\* C7: for a one-to-many relationship resolveRelationship returns the
\* related rows at positions [offset, offset + limit) in insertion order,
\* with offset = max(requested, 0) and limit clamped to [0, 1000]
\* (default 100); never more than limit rows.
OneToManyIsPaginated ==
    (RelationshipReturned /\ call.relationship.type = "one-to-many") =>
        /\ ~call.out.threw
        /\ call.out.shape = "array"
        /\ Len(call.out.rows) <= EffectiveLimit(call.pagination)
        /\ call.out.rows
             = StripAll(Take(Drop(RelatedRows, EffectiveOffset(call.pagination)),
                             EffectiveLimit(call.pagination)))

\* The related rows that satisfy the nested filter of the call.
MatchingRelatedRows ==
    SelectSeq(RelatedRows, LAMBDA row : ItemMatches(row, call.filter.e))

\* C8: with a nested filter, every row resolveRelationship returns
\* satisfies it: one-to-many returns only matching related rows, one-to-one
\* returns the first matching related row, or null when there is none.
RelationshipFilterApplied ==
    (RelationshipReturned /\ call.filter.def /\ Len(call.filter.e) > 0) =>
        /\ ~call.out.threw
        /\ \A i \in 1..Len(call.out.rows) :
              ItemMatches(call.out.rows[i], call.filter.e)
        /\ call.relationship.type = "one-to-one" =>
              IF MatchingRelatedRows = <<>>
              THEN call.out.shape = "null"
              ELSE /\ call.out.shape = "object"
                   /\ call.out.rows = <<StripRowid(MatchingRelatedRows[1])>>

(***************************************************************************)
(* applyNestedFilters on the rows of Users.                                *)
(***************************************************************************)
\* applyNestedFilters has returned, every lookup having succeeded.
NestedReturned ==
    pc = "done" /\ call.kind = "nested" /\ call.faults = {} /\ call.filter.def

IsRelationshipKey(key) == RelationshipFor(key, Relationships("Users")).found

\* The parent's local field is non-null and at least one row the lookup
\* returns for it satisfies every field condition of the nested filter.
SomeRelatedRowSatisfies(parent, en) ==
    LET relationship == RelationshipFor(en.key, Relationships("Users")).rel[1]
        parentValue == GetField(parent, relationship.field)
        related == Query(tables, RelatedRecordsQuery(relationship, parentValue)).rows
    IN  /\ ~IsNullish(parentValue)
        /\ \E k \in 1..Len(related) : ItemMatches(related[k], NestedEntries(en.val))

\* The plain field conditions of the filter hold of the parent.
PlainConditionsHold(parent) ==
    \A j \in 1..Len(call.filter.e) :
        IsRelationshipKey(call.filter.e[j].key)
        \/ ItemMatches(parent, <<call.filter.e[j]>>)

Kept(parent) == \E k \in 1..Len(call.out.out) : call.out.out[k] = parent

\* C4 as stated: a parent row is kept if and only if, under every
\* relationship key of the filter, its local field is non-null and at least
\* one related row satisfies every field condition of the nested filter.
KeptIffSomeRelatedRowMatches ==
    NestedReturned =>
        \A i \in 1..Len(call.data) :
            Kept(call.data[i]) <=>
                /\ PlainConditionsHold(call.data[i])
                /\ \A j \in 1..Len(call.filter.e) :
                      IsRelationshipKey(call.filter.e[j].key) =>
                          SomeRelatedRowSatisfies(call.data[i], call.filter.e[j])

\* C4 as amended: the same, under every relationship key whose nested
\* filter has at least one key; a relationship key with the empty nested
\* filter {} constrains nothing.
KeptIffSomeRelatedRowMatchesNonEmpty ==
    NestedReturned =>
        \A i \in 1..Len(call.data) :
            Kept(call.data[i]) <=>
                /\ PlainConditionsHold(call.data[i])
                /\ \A j \in 1..Len(call.filter.e) :
                      ( /\ IsRelationshipKey(call.filter.e[j].key)
                        /\ NumKeys(call.filter.e[j].val) > 0 ) =>
                          SomeRelatedRowSatisfies(call.data[i], call.filter.e[j])

\* Two users, one with a null id; the other has two orders of which only
\* the first is "ab": {orders: {status: {eq: "ab"}}} keeps exactly that user.
OneOfTwoOrdersMatches ==
    /\ NestedReturned
    /\ call.filter = Filter(<<Entry("orders", Nested(One("status", "eq", StrV(ab))))>>)
    /\ Len(call.data) = 2
    /\ IsNullish(call.data[2]["id"])
    /\ Len(tables["Orders"]) = 2
    /\ \A k \in 1..2 : tables["Orders"][k]["user_id"] = call.data[1]["id"]
    /\ tables["Orders"][1]["status"] = StrV(ab)
    /\ tables["Orders"][2]["status"] # StrV(ab)
    /\ call.out.out = <<call.data[1]>>

(***************************************************************************)
(* Null values under the filter operators.                                 *)
(***************************************************************************)
\* A filter function has returned its rows.
FilterReturned == pc = "done" /\ call.kind \in {"select", "applyFilters"}

\* The stored rows of Users whose field is, or is not, null.
RowsWithNull(field) ==
    SelectSeq(tables["Users"], LAMBDA row : row[field].t = "null")

RowsWithoutNull(field) ==
    SelectSeq(tables["Users"], LAMBDA row : row[field].t # "null")

\* C11: {F: {eq: null}} selects exactly the rows whose F is null and
\* {F: {ne: null}} exactly the rows whose F is not null, through the SQL and
\* through applyFilters.
NullEqNePartition ==
    FilterReturned =>
        \A field \in {"id", "name", "is_active"} :
            /\ call.filter = Filter(One(field, "eq", Null)) =>
                  call.rows = RowsWithNull(field)
            /\ call.filter = Filter(One(field, "ne", Null)) =>
                  call.rows = RowsWithoutNull(field)

\* The SQL for {name: {eq: null}} on a table of one null and one non-null
\* name returns one row.
EqNullSelectsTheNullRow ==
    /\ pc = "done"
    /\ call.kind = "select"
    /\ call.filter = Filter(One("name", "eq", Null))
    /\ Len(RowsWithNull("name")) = 1
    /\ Len(RowsWithoutNull("name")) = 1
    /\ Len(call.rows) = 1

\* The operators that a null field value must never satisfy.
PositiveOps ==
    {"eq", "gt", "gte", "lt", "lte", "in", "contains", "startsWith", "endsWith"}

\* Every operand of the operator is non-null.
OperandsNonNull(val, op) ==
    IF op = "in" THEN \A k \in 1..Len(val.o[op]) : ~IsNullish(val.o[op][k])
    ELSE ~IsNullish(val.o[op])

\* C12: applyFilters never keeps a row whose field is null under eq, gt,
\* gte, lt, lte, in, contains, startsWith or endsWith with non-null
\* operands; a null field value matches only a null operand.
NullNeverMatches ==
    (pc = "done" /\ call.kind = "applyFilters" /\ call.filter.def) =>
        \A i \in 1..Len(call.filter.e) :
            \A op \in PositiveOps :
                ( /\ Has(call.filter.e[i].val, op)
                  /\ OperandsNonNull(call.filter.e[i].val, op) ) =>
                    \A k \in 1..Len(call.rows) :
                        call.rows[k][call.filter.e[i].key].t # "null"

\* applyFilters with {id: {lte: 1}} on a table of a null id and id 1 keeps
\* the row with id 1 only.
LteDropsTheNullRow ==
    /\ pc = "done"
    /\ call.kind = "applyFilters"
    /\ call.filter = Filter(One("id", "lte", IntV(1)))
    /\ Len(RowsWithNull("id")) = 1
    /\ Len(tables["Users"]) = 2
    /\ Len(call.rows) = 1
    /\ call.rows[1]["id"] = IntV(1)

(***************************************************************************)
(* Ranges and conjunction.                                                 *)
(***************************************************************************)
\* The stored rows of Users with v1 <= id < v2.
RowsInRange(v1, v2) ==
    SelectSeq(tables["Users"], LAMBDA row :
        row["id"].t = "int" /\ v1 <= row["id"].n /\ row["id"].n < v2)

\* The stored rows of Users whose created_date is a day d with
\* v1 <= d < v2.
RowsInDateRange(v1, v2) ==
    SelectSeq(tables["Users"], LAMBDA row :
        /\ row["created_date"].t = "str"
        /\ v1 <= NewDate(row["created_date"].s).n
        /\ NewDate(row["created_date"].s).n < v2)

\* C13: for v1 < v2 the filter {F: {gte: v1, lt: v2}} selects exactly the
\* rows with v1 <= F < v2, for numbers and for dates, through the SQL and
\* through applyFilters.
HalfOpenRange ==
    FilterReturned =>
        /\ \A v1 \in RangeEnds : \A v2 \in RangeEnds :
              ( /\ v1 < v2
                /\ call.filter
                     = Filter(<<Entry("id", Ops([gte |-> IntV(v1), lt |-> IntV(v2)]))>>) ) =>
                  call.rows = RowsInRange(v1, v2)
        /\ \A v1 \in DateEnds : \A v2 \in DateEnds : \A form \in {"Date", "text"} :
              (v1 < v2 /\ call.filter = Filter(DateRange(v1, v2, form))) =>
                  call.rows = RowsInDateRange(v1, v2)

\* The operators of a filter, each with the position of its key.
Atoms(filter) ==
    { <<i, op>> : i \in 1..Len(filter.e),
                  op \in UNION { DOMAIN filter.e[j].val.o : j \in 1..Len(filter.e) } }
      \cap { a \in (1..Len(filter.e)) \X {"eq", "ne", "gt", "gte", "lt", "lte", "in",
                                          "contains", "startsWith", "endsWith", "foo"} :
               a[2] \in DOMAIN filter.e[a[1]].val.o }

\* The filter with the operators in A only; a key left with none is absent.
Restrict(filter, A) ==
    LET cut == [i \in 1..Len(filter.e) |->
                  Entry(filter.e[i].key,
                        Ops([op \in {o \in DOMAIN filter.e[i].val.o : <<i, o>> \in A}
                               |-> filter.e[i].val.o[op]]))]
    IN  Filter(SelectSeq(cut, LAMBDA en : DOMAIN en.val.o # {}))

\* Filtering the rows of Users with f on the path of the call.
FilteredWith(f) ==
    IF call.kind = "select" THEN SqlRows(f).rows ELSE applyFilters(tables["Users"], f)

\* Filtering with f1 and then filtering the result with f2.
FilteredWithThen(f1, f2) ==
    IF call.kind = "select"
    THEN SelectSeq(SqlRows(f1).rows,
                   LAMBDA row : \E j \in 1..Len(SqlRows(f2).rows) : SqlRows(f2).rows[j] = row)
    ELSE applyFilters(applyFilters(tables["Users"], f1), f2)

\* C14: filtering with the union of two filters over disjoint keys, or
\* disjoint operators of one key, returns what filtering with the one and
\* then with the other returns, in either order; a row is kept exactly
\* when each present operator of each present key, alone, keeps it.
ConjunctiveComposition ==
    FilterReturned =>
        /\ \A A \in SUBSET Atoms(call.filter) :
              call.rows = FilteredWithThen(Restrict(call.filter, A),
                                           Restrict(call.filter, Atoms(call.filter) \ A))
        /\ call.rows = SelectSeq(tables["Users"], LAMBDA row :
                          \A a \in Atoms(call.filter) :
                             \E j \in 1..Len(FilteredWith(Restrict(call.filter, {a}))) :
                                FilteredWith(Restrict(call.filter, {a}))[j] = row)

\* Two keys, each of which alone keeps more rows than both together: the
\* conjunction decided.
TwoKeysKeepFewerThanEach ==
    /\ FilterReturned
    /\ Len(call.filter.e) = 2
    /\ \A a \in Atoms(call.filter) :
          Len(call.rows) < Len(FilteredWith(Restrict(call.filter, {a})))

(***************************************************************************)
(* Pages of a root query.                                                  *)
(***************************************************************************)
\* The items the root query of the call returns for another page of the
\* same request.
PageItems(offset, limit) ==
    RootResolve(generator, builderRev, call.req.table, call.req.filter,
                Pagination(Num(offset), Num(limit)), tables, {}).result.items

\* The call is a root query that returned the page (offset 0, limit total).
ReturnedFirstPage(total) ==
    /\ pc = "done"
    /\ call.kind = "root"
    /\ call.req.faults = {}
    /\ ~call.out.threw
    /\ call.req.pagination = Pagination(Num(0), Num(total))

\* C15: for N, M >= 0 with N + M <= 1000, the items of (offset 0, limit N)
\* followed by the items of (offset N, limit M) are the items of
\* (offset 0, limit N + M), on the SQL path and on the memory path.
PagesConcatenate ==
    \A total \in 0..2 :
        ReturnedFirstPage(total) =>
            \A N \in 0..total :
                PageItems(0, N) \o PageItems(N, total - N) = call.out.result.items

(***************************************************************************)
(* Lookups that raise inside applyNestedFilters.                           *)
(***************************************************************************)
\* The parents of the call whose related records are looked up, in order:
\* those that pass the plain conditions and hold a parent value.
LookedUp ==
    SelectSeq(call.data, LAMBDA item :
        /\ ItemMatches(item, RegularFilters(call.filter.e, Relationships("Users")))
        /\ RelationshipFilters(call.filter.e, Relationships("Users")) # <<>>
        /\ ~IsNullish(GetField(item, Relationships("Users")[1].field)))

\* The lookups of the call that raised.
FailedLookups == call.faults \cap (1..Len(LookedUp))

\* The same call with no lookup raising.
WithoutFaults ==
    applyNestedFilters(call.data, call.filter, Relationships("Users"), tables, {}, 0, 0)

\* C16: when a lookup raises inside applyNestedFilters, its parent is
\* excluded, the error is logged once per failing lookup, the remaining
\* parents are evaluated as without the failure, and applyNestedFilters
\* returns; the root resolver that called it returns as well.
LookupErrorsAreContained ==
    /\ (pc = "done" /\ call.kind = "nested" /\ call.filter.def) =>
          /\ call.out.lookups = WithoutFaults.lookups
          /\ Len(call.out.lookups) = Len(LookedUp)
          /\ call.out.nlog = Cardinality(FailedLookups)
          /\ call.out.out
               = SelectSeq(WithoutFaults.out, LAMBDA item :
                    \A k \in FailedLookups : LookedUp[k] # item)
    /\ (pc = "done" /\ call.kind = "root" /\ call.out.path = "memory"
          /\ 1 \notin call.req.faults) =>
          /\ ~call.out.threw
          /\ call.out.nlog = Cardinality({k \in call.req.faults : k <= call.out.nq})

\* The first of two lookups raised: its parent is dropped, the error is
\* logged once, and the second parent is looked up and kept.
SecondParentKeptAfterFailure ==
    /\ pc = "done"
    /\ call.kind = "nested"
    /\ call.faults = {1}
    /\ Len(call.out.lookups) = 2
    /\ call.out.nlog = 1
    /\ Len(WithoutFaults.out) = 2
    /\ call.out.out = <<call.data[2]>>

(***************************************************************************)
(* The path of a root query.                                               *)
(***************************************************************************)
\* The field under which a table's declared relationship appears.
RelationshipKey(table) == IF table = "Users" THEN "orders" ELSE "users"

\* Some top-level key of the filter is the table's relationship field.
NamesARelationship(filter, table) ==
    /\ filter.def
    /\ \E i \in 1..Len(filter.e) : filter.e[i].key = RelationshipKey(table)

\* C17: the root resolver takes the memory path exactly when a top-level
\* filter key is the derived field name of a declared relationship; with no
\* filter, an empty filter or no declared relationship it takes the SQL
\* path, whose only queries are the count and the paginated select.
MemoryPathIffRelationshipKey ==
    (pc = "done" /\ call.kind = "root") =>
        /\ call.out.path = "memory" <=> NamesARelationship(call.req.filter, call.req.table)
        /\ (~call.req.filter.def \/ call.req.filter.e = <<>>) => call.out.path = "sql"
        /\ ~hasRelationshipFilters(call.req.filter, <<>>)
        /\ call.out.path = "sql" =>
              /\ call.out.nq <= 2
              /\ call.out.lookups = <<>>

\* A filter with a plain key and a relationship key went through memory.
MixedFilterTookMemoryPath ==
    /\ pc = "done"
    /\ call.kind = "root"
    /\ call.req.table = "Users"
    /\ Len(call.req.filter.e) = 2
    /\ call.req.filter.e[1].key = "name"
    /\ call.out.path = "memory"
    /\ Len(tables["Users"]) > 0

(***************************************************************************)
(* The internal row id.                                                    *)
(***************************************************************************)
\* C18: no returned row carries _rowid: the items of a root query on the
\* SQL path and on the memory path, the row of a one-to-one relationship
\* and each row of a one-to-many relationship.
NoRowidReturned ==
    /\ (pc = "done" /\ call.kind = "root") =>
          \A i \in 1..Len(call.out.result.items) :
              "_rowid" \notin DOMAIN call.out.result.items[i]
    /\ (pc = "done" /\ call.kind = "relationship") =>
          \A i \in 1..Len(call.out.rows) : "_rowid" \notin DOMAIN call.out.rows[i]

\* A one-to-many field returned rows of a table whose stored rows carry
\* the id.
OneToManyReturnedStoredRows ==
    /\ pc = "done"
    /\ call.kind = "relationship"
    /\ call.out.shape = "array"
    /\ Len(call.out.rows) > 0
    /\ \A i \in 1..Len(tables["Orders"]) : "_rowid" \in DOMAIN tables["Orders"][i]

(***************************************************************************)
(* The server under POST /refresh-schema.  The handler is async: it runs   *)
(* to its next await, and other requests are handled while it waits.  One  *)
(* action is one such stretch.  A GraphQL request resolves its root field  *)
(* and then the relationship field of the first item.                      *)
(***************************************************************************)
\* this.metadata, in the order generateSchema loads it.
LoadOrder == <<"Users", "Orders">>

\* The parsed CSV file of a table as load cycle gen finds it.
CsvData(table, gen) ==
    IF table = "Users"
    THEN CHOOSE raw \in RawRows("Users") :
            raw.name = (CASE gen % 3 = 0 -> StrV(ab)
                          [] gen % 3 = 1 -> StrV(Ab)
                          [] OTHER -> Null)
    ELSE CHOOSE raw \in RawRows("Orders") :
            raw.status = (CASE gen % 3 = 0 -> StrV(ab)
                            [] gen % 3 = 1 -> StrV(<<"b">>)
                            [] OTHER -> Null)

\* createTable (DROP TABLE IF EXISTS, CREATE TABLE) and insertData.
loadCSVIntoDatabase(file, table, gen) ==
    [file EXCEPT ![table] = <<StoredRow(table, 1, CsvData(table, gen))>>]

\* The tables startServer loaded.
LoadedAtStart ==
    loadCSVIntoDatabase(loadCSVIntoDatabase(NoTables, "Users", 0), "Orders", 0)

\* DatabaseManager.close leaving the connection usable.
closeLeavesOpen(open, db) == open

\* DatabaseManager.close
close(open, db) == open \ {db}

\* apolloServer.stop(): the server accepts no operation from now on.
stop(servers, s) ==
    IF s = 0 THEN servers ELSE [servers EXCEPT ![s].phase = "stopped"]

\* The queries of a request fail when its connection is closed.
ConnectionFaults(db) == IF db \in srv.open THEN {} ELSE {1, 2}

InitRefresh ==
    /\ tables = LoadedAtStart
    /\ builderRev \in {1, 2}
    /\ generator \in {"ts", "js"}
    /\ pc = "idle"
    /\ call = NoCall
    /\ srv = Started
    /\ sg = IdleGenerator

\* The handler up to 'await apolloServer.stop()'.
RefreshRequest(r) ==
    /\ srv.refresh[r].pc = "idle"
    /\ srv' = [srv EXCEPT !.servers = stop(@, srv.apolloServer),
                          !.refresh[r].pc = "stopping"]
    /\ UNCHANGED <<tables, builderRev, generator, pc, call, sg>>

\* database.close(), database = null, and createApolloServer up to
\* 'await metadataLoader.loadMetadata(...)': a new DatabaseManager.
RefreshCloseAndReopen(r) ==
    /\ srv.refresh[r].pc = "stopping"
    /\ srv' = [srv EXCEPT !.open = close(@, srv.database) \cup {srv.ndb + 1},
                          !.database = srv.ndb + 1,
                          !.ndb = srv.ndb + 1,
                          !.refresh[r].pc = "metadata"]
    /\ UNCHANGED <<tables, builderRev, generator, pc, call, sg>>

\* new CSVLoader({..., database}), new SchemaGenerator(csvLoader, metadata,
\* database), and generateSchema up to the first 'await loadCSV'.
RefreshBeginLoad(r) ==
    /\ srv.refresh[r].pc = "metadata"
    /\ srv' = [srv EXCEPT !.refresh[r].db = srv.database,
                          !.refresh[r].k = 1,
                          !.refresh[r].pc = "loading"]
    /\ UNCHANGED <<tables, builderRev, generator, pc, call, sg>>

\* One table is replaced; after the last one the schema is built,
\* apolloServer is assigned and the handler awaits apolloServer.start().
\* A closed connection makes createTable throw: the handler answers 500.
RefreshLoadTable(r) ==
    /\ srv.refresh[r].pc = "loading"
    /\ LET me == srv.refresh[r]
           table == LoadOrder[me.k]
           server == Len(srv.servers) + 1
       IN  IF me.db \notin srv.open
           THEN /\ srv' = [srv EXCEPT !.refresh[r].pc = "failed"]
                /\ UNCHANGED tables
           ELSE /\ tables' = loadCSVIntoDatabase(tables, table, r)
                /\ srv' = IF me.k < Len(LoadOrder)
                          THEN [srv EXCEPT !.refresh[r].k = me.k + 1]
                          ELSE [srv EXCEPT
                                  !.servers = Append(@, [db |-> me.db, phase |-> "starting"]),
                                  !.apolloServer = server,
                                  !.refresh[r].server = server,
                                  !.refresh[r].pc = "starting"]
    /\ UNCHANGED <<builderRev, generator, pc, call, sg>>

\* start() has resolved; apolloServer.applyMiddleware mounts the server
\* that the variable holds now, and the handler answers.
RefreshInstall(r) ==
    /\ srv.refresh[r].pc = "starting"
    /\ LET own == srv.refresh[r].server
           servers == [srv.servers EXCEPT
                         ![own].phase = IF @ = "starting" THEN "started" ELSE @]
           installed == /\ servers[own].phase = "started"
                        /\ servers[srv.apolloServer].phase = "started"
       IN  srv' = [srv EXCEPT
                     !.servers = servers,
                     !.mounted = IF installed THEN Append(@, srv.apolloServer) ELSE @,
                     !.refresh[r].pc = IF installed THEN "done" ELSE "failed"]
    /\ UNCHANGED <<tables, builderRev, generator, pc, call, sg>>

\* A GraphQL request reaches the router mounted first; a server that was
\* stopped rejects the operation.
QueryArrives(q) ==
    /\ srv.query[q].pc = "idle"
    /\ LET server == srv.servers[srv.mounted[1]]
       IN  srv' = IF server.phase = "started"
                  THEN [srv EXCEPT !.query[q] = [IdleQuery EXCEPT !.pc = "root",
                                                                 !.db = server.db,
                                                                 !.snap = tables]]
                  ELSE [srv EXCEPT !.query[q].pc = "failed"]
    /\ UNCHANGED <<tables, builderRev, generator, pc, call, sg>>

\* The root field users is resolved.  (The resolver's outcome is drawn from
\* a one-element set, so it is computed once.)
QueryRootField(q) ==
    /\ srv.query[q].pc = "root"
    /\ \E out \in { RootResolve(generator, builderRev, "Users", NoFilter,
                                 DefaultPagination, tables,
                                 ConnectionFaults(srv.query[q].db)) } :
           srv' = IF out.threw \/ out.nlog > 0
                  THEN [srv EXCEPT !.query[q].pc = "failed"]
                  ELSE [srv EXCEPT !.query[q].root = out.result.items,
                                   !.query[q].pc = IF out.result.items = <<>>
                                                   THEN "done" ELSE "relationship"]
    /\ UNCHANGED <<tables, builderRev, generator, pc, call, sg>>

\* The field orders of the first item is resolved.
QueryRelationshipField(q) ==
    /\ srv.query[q].pc = "relationship"
    /\ \E out \in { resolveRelationship(srv.query[q].root[1],
                                         Relationships("Users")[1],
                                         NoFilter, DefaultPagination, tables,
                                         ConnectionFaults(srv.query[q].db)) } :
           srv' = IF out.threw
                  THEN [srv EXCEPT !.query[q].pc = "failed"]
                  ELSE [srv EXCEPT !.query[q].related = out.rows,
                                   !.query[q].pc = "done"]
    /\ UNCHANGED <<tables, builderRev, generator, pc, call, sg>>

\* The response is sent.
QueryReturn(q) ==
    /\ srv.query[q].pc \in {"done", "failed"}
    /\ srv' = [srv EXCEPT !.query[q] = IdleQuery]
    /\ UNCHANGED <<tables, builderRev, generator, pc, call, sg>>

NextRefresh ==
    \/ \E r \in Refreshes : RefreshRequest(r)
    \/ \E r \in Refreshes : RefreshCloseAndReopen(r)
    \/ \E r \in Refreshes : RefreshBeginLoad(r)
    \/ \E r \in Refreshes : RefreshLoadTable(r)
    \/ \E r \in Refreshes : RefreshInstall(r)
    \/ \E q \in QueryIds : QueryArrives(q)
    \/ \E q \in QueryIds : QueryRootField(q)
    \/ \E q \in QueryIds : QueryRelationshipField(q)
    \/ \E q \in QueryIds : QueryReturn(q)

SpecRefresh == InitRefresh /\ [][NextRefresh]_vars

\* What a query resolves against the tables as they were when it arrived.
RootOfSnapshot(q) ==
    RootResolve(generator, builderRev, "Users", NoFilter, DefaultPagination,
                srv.query[q].snap, {}).result.items

RelatedOfSnapshot(q) ==
    resolveRelationship(srv.query[q].root[1], Relationships("Users")[1], NoFilter,
                        DefaultPagination, srv.query[q].snap, {}).rows

\* C19: a query in flight while a refresh runs completes with what the
\* tables held before the refresh, or fails; no field of it is resolved
\* against tables of which some are replaced and others are not.
QueriesSeeOneSnapshot ==
    \A q \in QueryIds :
        /\ srv.query[q].pc \in {"root", "relationship", "done"} =>
              srv.query[q].snap = LoadedAtStart
        /\ srv.query[q].pc \in {"relationship", "done"} =>
              srv.query[q].root = RootOfSnapshot(q)
        /\ (srv.query[q].pc = "done" /\ srv.query[q].root # <<>>) =>
              srv.query[q].related = RelatedOfSnapshot(q)

\* A query resolved its root field, a refresh then replaced Users and not
\* yet Orders, and the query's relationship field failed.
QueryFailedOnHalfReplacedTables ==
    \E q \in QueryIds :
        /\ srv.query[q].pc = "failed"
        /\ srv.query[q].root # <<>>
        /\ tables["Users"] # LoadedAtStart["Users"]
        /\ tables["Orders"] = LoadedAtStart["Orders"]

\* The refresh is between stopping the old server and installing the new.
InRefresh(r) == srv.refresh[r].pc \in {"stopping", "metadata", "loading", "starting"}

\* C20: refreshes are serialized: while one refresh is between stopping
\* the old server and installing the new one, no other refresh is at its
\* stop, close-database or rebuild steps.
RefreshesAreSerialized ==
    \A r1 \in Refreshes : \A r2 \in Refreshes :
        (InRefresh(r1) /\ InRefresh(r2)) => r1 = r2


(***************************************************************************)
(* CSVLoader.inferSchema and SchemaGenerator.generateSchema.  A GraphQL    *)
(* type is identified by what it was built for, not by the text of its     *)
(* name; a field map is a function from field name to field, a later       *)
(* assignment to a key replacing the earlier one.                          *)
(***************************************************************************)
\* Object.keys(row): the columns in the order of the CSV header, which is
\* the order of the table's columns after _rowid.
KeyOrder ==
    <<"_rowid", "id", "name", "is_active", "created_date", "user_id",
      "status", "age">>

ObjectKeys(row) == SelectSeq(KeyOrder, LAMBDA k : k \in DOMAIN row)

\* The optional metadata argument (csvMeta.fields).
NoMetadata == [def |-> FALSE, fields |-> <<>>]
Declared(fields) == [def |-> TRUE, fields |-> fields]

\* existingMetadata.description; "" stands for undefined.
Description(field) ==
    IF "description" \in DOMAIN field THEN field.description ELSE ""

inferSchema(data, metadata) ==
    IF Len(data) = 0
    THEN IF metadata.def THEN metadata.fields ELSE <<>>
    ELSE LET columns == ObjectKeys(data[1])
         IN  [i \in 1..Len(columns) |->
                LET hits == IF metadata.def
                            THEN {j \in 1..Len(metadata.fields) :
                                    metadata.fields[j].name = columns[i]}
                            ELSE {}
                IN  IF hits # {}
                    THEN LET existingMetadata ==
                                metadata.fields[CHOOSE j \in hits :
                                                  \A h \in hits : h <= j]
                         IN  [name |-> columns[i],
                              type |-> IF existingMetadata.type = ""
                                       THEN "String"
                                       ELSE existingMetadata.type,
                              description |-> Description(existingMetadata)]
                    ELSE [name |-> columns[i], type |-> "String",
                          description |-> ""]]

getGraphQLType(fieldType) ==
    IF fieldType \in {"Int", "Float", "Boolean", "Date", "DateTime"}
    THEN fieldType
    ELSE "String"

NoType == [kind |-> "none", of |-> "", field |-> ""]
ScalarType(name) == [kind |-> "scalar", of |-> name, field |-> ""]
ObjectType(name) == [kind |-> "object", of |-> name, field |-> ""]
FilterType(name) == [kind |-> "filter", of |-> name, field |-> ""]
FieldFilterType(name, field) == [kind |-> "fieldFilter", of |-> name, field |-> field]
ResultType(name) == [kind |-> "result", of |-> name, field |-> ""]

\* One field of an object type: its type, whether it is a list of it, the
\* type of its filter argument and whether it takes a pagination argument.
FieldConfig(type, list, filter, pagination) ==
    [type |-> type, list |-> list, filter |-> filter, pagination |-> pagination]

\* fields[key] = val
Assign(fields, key, val) ==
    [k \in DOMAIN fields \cup {key} |-> IF k = key THEN val ELSE fields[k]]

\* The first loop of the fields thunk of createBasicType.
RECURSIVE RegularFields(_, _)
RegularFields(schema, fields) ==
    IF schema = <<>> THEN fields
    ELSE LET field == Head(schema)
         IN  RegularFields(Tail(schema),
                IF field.name = "_rowid" THEN fields
                ELSE Assign(fields, field.name,
                        FieldConfig(ScalarType(getGraphQLType(field.type)),
                                    FALSE, NoType, FALSE)))

\* The relationship loop of the thunk with the filter argument left out.
RECURSIVE RelationshipFieldsNoFilter(_, _, _, _)
RelationshipFieldsNoFilter(relationships, fields, types, filterTypes) ==
    IF relationships = <<>> THEN fields
    ELSE LET relationship == Head(relationships)
         IN  RelationshipFieldsNoFilter(Tail(relationships),
                IF relationship.references \notin types THEN fields
                ELSE Assign(fields, getRelationshipFieldName(relationship),
                        FieldConfig(ObjectType(relationship.references),
                                    relationship.type = "one-to-many",
                                    NoType,
                                    relationship.type = "one-to-many")),
                types, filterTypes)

\* The relationship loop of the fields thunk of createBasicType; types and
\* filterTypes are this.types and this.filterTypes when the thunk runs.
RECURSIVE RelationshipFields(_, _, _, _)
RelationshipFields(relationships, fields, types, filterTypes) ==
    IF relationships = <<>> THEN fields
    ELSE LET relationship == Head(relationships)
         IN  RelationshipFields(Tail(relationships),
                IF relationship.references \notin types THEN fields
                ELSE Assign(fields, getRelationshipFieldName(relationship),
                        FieldConfig(ObjectType(relationship.references),
                                    relationship.type = "one-to-many",
                                    IF relationship.references \in filterTypes
                                    THEN FilterType(relationship.references)
                                    ELSE NoType,
                                    relationship.type = "one-to-many")),
                types, filterTypes)

\* The fields thunk of the object type of createBasicType.
ObjectTypeFields(csvMeta, schema, types, filterTypes) ==
    RelationshipFields(csvMeta.relationships, RegularFields(schema, <<>>),
                       types, filterTypes)

\* The two loops of the fields thunk of createFilterType.
RECURSIVE RegularFilterFields(_, _, _)
RegularFilterFields(name, schema, filterFields) ==
    IF schema = <<>> THEN filterFields
    ELSE LET field == Head(schema)
         IN  RegularFilterFields(name, Tail(schema),
                IF field.name = "_rowid" THEN filterFields
                ELSE Assign(filterFields, field.name,
                            FieldFilterType(name, field.name)))

RECURSIVE RelationshipFilterFields(_, _, _)
RelationshipFilterFields(relationships, filterFields, filterTypes) ==
    IF relationships = <<>> THEN filterFields
    ELSE LET relationship == Head(relationships)
         IN  RelationshipFilterFields(Tail(relationships),
                IF relationship.references \in filterTypes
                THEN Assign(filterFields, getRelationshipFieldName(relationship),
                            FilterType(relationship.references))
                ELSE filterFields,
                filterTypes)

FilterTypeFields(csvMeta, schema, filterTypes) ==
    RelationshipFilterFields(csvMeta.relationships,
                             RegularFilterFields(csvMeta.name, schema, <<>>),
                             filterTypes)

\* getQueryName: the one-to-many form of the dataset's name.
getQueryName(csvName) == DerivedFieldName(csvName, "one-to-many")

\* createQueryField for every dataset, in order; ok is FALSE when a result
\* type is missing and the method throws.
RECURSIVE QueryFields(_, _, _, _)
QueryFields(metadata, queryFields, resultTypes, filterTypes) ==
    IF metadata = <<>> THEN [ok |-> TRUE, fields |-> queryFields]
    ELSE LET csvMeta == Head(metadata)
         IN  IF csvMeta.name \notin resultTypes
             THEN [ok |-> FALSE, fields |-> queryFields]
             ELSE QueryFields(Tail(metadata),
                    Assign(queryFields, getQueryName(csvMeta.name),
                        FieldConfig(ResultType(csvMeta.name), FALSE,
                                    IF csvMeta.name \in filterTypes
                                    THEN FilterType(csvMeta.name) ELSE NoType,
                                    TRUE)),
                    resultTypes, filterTypes)

\* new GraphQLSchema: every fields thunk runs now, against the maps as
\* they are at the end of generateSchema.
BuiltSchema(g, queryFields) ==
    [ query |-> queryFields,
      objects |-> [name \in g.types |->
            LET csvMeta == g.metadata[CHOOSE i \in 1..Len(g.metadata) :
                                        g.metadata[i].name = name]
            IN  ObjectTypeFields(csvMeta, g.schemas[name], g.types, g.filterTypes)],
      filters |-> [name \in g.filterTypes |->
            LET csvMeta == g.metadata[CHOOSE i \in 1..Len(g.metadata) :
                                        g.metadata[i].name = name]
            IN  FilterTypeFields(csvMeta, g.schemas[name], g.filterTypes)] ]

\* The metadata a server can be started with: the datasets in either order
\* or one of them alone, each with its relationships or with none.
CsvMetas(name) ==
    { [name |-> name, fields |-> Fields(name), relationships |-> r] :
        r \in {Relationships(name), <<>>} }

MetadataLists ==
    { <<m>> : m \in CsvMetas("Users") \cup CsvMetas("Orders") }
    \cup { <<u, o>> : u \in CsvMetas("Users"), o \in CsvMetas("Orders") }
    \cup { <<o, u>> : u \in CsvMetas("Users"), o \in CsvMetas("Orders") }

\* generateSchema is entered on a fresh generator.  fault names the call
\* to the row source that raises, if one does: loadCSV (the file is
\* missing) or the sample-row query (the connection is closed) of the
\* faultAt-th dataset; empty holds the datasets whose CSV file has no row.
InitSchema ==
    /\ tables = NoTables
    /\ builderRev \in {1, 2}
    /\ generator \in {"ts", "js"}
    /\ pc = "idle"
    /\ call = NoCall
    /\ srv = Started
    /\ \E metadata \in MetadataLists, empty \in SUBSET TableNames,
          fault \in {"none", "load", "sample"}, faultAt \in 1..2 :
          /\ fault = "none" => faultAt = 1
          /\ faultAt <= Len(metadata)
          /\ sg = [IdleGenerator EXCEPT !.pc = "load", !.metadata = metadata,
                     !.empty = empty, !.k = 1, !.fault = fault,
                     !.faultAt = faultAt]

\* The loop at the end of which pass p is over goes on with the next
\* dataset or enters the next pass.
Advance(g, next) ==
    IF g.k < Len(g.metadata) THEN [g EXCEPT !.k = g.k + 1]
    ELSE [g EXCEPT !.pc = next, !.k = 1]

\* await this.csvLoader.loadCSVIntoDatabase(csvMeta)
SchemaLoad ==
    /\ sg.pc = "load"
    /\ LET csvMeta == sg.metadata[sg.k]
       IN  IF sg.fault = "load" /\ sg.faultAt = sg.k
           THEN /\ sg' = [sg EXCEPT !.pc = "failed", !.raised = TRUE]
                /\ UNCHANGED tables
           ELSE /\ tables' = IF csvMeta.name \in sg.empty
                             THEN [tables EXCEPT ![csvMeta.name] = <<>>]
                             ELSE loadCSVIntoDatabase(tables, csvMeta.name, 0)
                /\ sg' = Advance(sg, "basic")
    /\ UNCHANGED <<builderRev, generator, pc, call, srv>>

\* await this.createBasicType(csvMeta)
SchemaCreateBasicType ==
    /\ sg.pc = "basic"
    /\ LET csvMeta == sg.metadata[sg.k]
           sampleData == Query(tables, buildSelectQuery(csvMeta.name, NoFilter,
                                   Pagination(NoNum, Num(1)), builderRev))
           raises == (sg.fault = "sample" /\ sg.faultAt = sg.k) \/ ~sampleData.ok
           schema == IF raises THEN csvMeta.fields
                     ELSE inferSchema(sampleData.rows, Declared(csvMeta.fields))
           created == [sg EXCEPT
                         !.raised = @ \/ raises,
                         !.schemas = Assign(@, csvMeta.name, schema),
                         !.types = @ \cup {csvMeta.name}]
       IN  IF raises /\ generator = "ts"
           THEN sg' = [sg EXCEPT !.pc = "failed", !.raised = TRUE]
           ELSE sg' = Advance(created, "filter")
    /\ UNCHANGED <<tables, builderRev, generator, pc, call, srv>>

\* this.createFilterType(csvMeta); this.createResultType(csvMeta)
SchemaCreateFilterType ==
    /\ sg.pc = "filter"
    /\ LET csvMeta == sg.metadata[sg.k]
           created == [sg EXCEPT
                         !.filterTypes = IF csvMeta.name \in DOMAIN sg.schemas
                                         THEN @ \cup {csvMeta.name} ELSE @,
                         !.resultTypes = IF csvMeta.name \in sg.types
                                         THEN @ \cup {csvMeta.name} ELSE @]
       IN  sg' = Advance(created, "build")
    /\ UNCHANGED <<tables, builderRev, generator, pc, call, srv>>

\* The root query fields and new GraphQLSchema.
SchemaBuild ==
    /\ sg.pc = "build"
    /\ LET q == QueryFields(sg.metadata, <<>>, sg.resultTypes, sg.filterTypes)
       IN  sg' = IF q.ok
                 THEN [sg EXCEPT !.pc = "done", !.schema = BuiltSchema(sg, q.fields)]
                 ELSE [sg EXCEPT !.pc = "failed"]
    /\ UNCHANGED <<tables, builderRev, generator, pc, call, srv>>

NextSchema ==
    \/ SchemaLoad
    \/ SchemaCreateBasicType
    \/ SchemaCreateFilterType
    \/ SchemaBuild

SpecSchema == InitSchema /\ [][NextSchema]_vars

\* The datasets declared to the generator.
DeclaredNames == {sg.metadata[i].name : i \in 1..Len(sg.metadata)}

\* C21: once generateSchema has completed, every declared relationship
\* whose target dataset is declared too -- whatever the order of the
\* declarations, mutual references included -- is a field of the owning
\* object type that takes a filter argument of the target's filter type,
\* and a key of the owning filter type typed by the target's filter type.
RelationshipsResolveAfterSynthesis ==
    sg.pc = "done" =>
        \A i \in 1..Len(sg.metadata) :
            \A j \in 1..Len(sg.metadata[i].relationships) :
                LET owner == sg.metadata[i].name
                    relationship == sg.metadata[i].relationships[j]
                    fieldName == getRelationshipFieldName(relationship)
                IN  relationship.references \in DeclaredNames =>
                        /\ fieldName \in DOMAIN sg.schema.objects[owner]
                        /\ sg.schema.objects[owner][fieldName].type
                                = ObjectType(relationship.references)
                        /\ sg.schema.objects[owner][fieldName].filter
                                = FilterType(relationship.references)
                        /\ fieldName \in DOMAIN sg.schema.filters[owner]
                        /\ sg.schema.filters[owner][fieldName]
                                = FilterType(relationship.references)

\* generateSchema has completed for two datasets that refer to each other,
\* the first declared referring forward to the second.
MutualReferencesSynthesized ==
    /\ sg.pc = "done"
    /\ Len(sg.metadata) = 2
    /\ \A i \in 1..2 : sg.metadata[i].relationships # <<>>
    /\ sg.metadata[1].relationships[1].references = sg.metadata[2].name
    /\ sg.metadata[2].relationships[1].references = sg.metadata[1].name

\* C22: when the row source raises while a dataset's descriptor is being
\* built (the data load or the sample-row query), generateSchema fails: it
\* does not go on to the later passes and returns no schema.
RowSourceFailureFailsSynthesis ==
    sg.raised => sg.pc = "failed"

(***************************************************************************)
(* The loader's and the name functions on their own, as the repository's   *)
(* loader and schema-generator tests call them.                            *)
(***************************************************************************)
\* Sample rows: the first row decides the columns.
SampleRows ==
    { [c \in cols |-> StrV(<<"1">>)] :
        cols \in SUBSET {"id", "name", "age"} \ {{}} }

SampleData ==
    {<<>>} \cup { <<row>> : row \in SampleRows }
           \cup { <<row, [id |-> StrV(<<"2">>)]>> : row \in SampleRows }

\* Declared fields: one without a type, two of one name.
MetadataFields ==
    { [name |-> "id", type |-> "Int", description |-> ""],
      [name |-> "age", type |-> "Int", description |-> "d"],
      [name |-> "name", type |-> "", description |-> ""],
      [name |-> "id", type |-> "String", description |-> "d"] }

Metadatas ==
    {NoMetadata, Declared(<<>>)}
    \cup { Declared(<<f>>) : f \in MetadataFields }
    \cup { Declared(<<f, g>>) : f \in MetadataFields, g \in MetadataFields }

\* Values handed to insertData.  Text that is a date or is not one is all
\* a Date or DateTime column is given here.
DateTexts ==
    { Null, Undefined, StrV(<<>>), StrV(<<"x">>), StrV(<<"a", "b">>) }
    \cup { StrV(toISOString(i)) : i \in DateTicks }
    \cup { StrV(SplitT(toISOString(i))) : i \in DateTicks }

RawValues ==
    DateTexts
    \cup { StrV(<<"1">>), StrV(<<"0">>), StrV(<<"1", "2">>), StrV(<<"1", "x">>),
           StrV(<<"T", "r", "u", "e">>), StrV(<<"t", "r", "u", "e">>),
           StrV(<<"Y", "e", "s">>), StrV(<<"n", "o">>),
           StrV(<<"1", ".", "5">>), StrV(<<"1", ".", "5", "0">>),
           StrV(<<".", "5">>), StrV(<<"2", ".">>), StrV(<<".">>),
           IntV(0), IntV(1), IntV(7), BoolV(TRUE), BoolV(FALSE) }

FieldTypes == {"Int", "Float", "Boolean", "Date", "DateTime", "String", ""}

Conversions ==
    { <<value, fieldType>> \in RawValues \X FieldTypes :
        fieldType \in {"Date", "DateTime"} => value \in DateTexts }

NamedRelationships ==
    { [field |-> "id", references |-> references, referenceField |-> "id",
       type |-> type] :
        references \in {"User", "Users", "user", "users", "Order", "orders"},
        type \in {"one-to-many", "one-to-one"} }

InitLoader ==
    /\ tables = NoTables
    /\ builderRev \in {1, 2}
    /\ generator \in {"ts", "js"}
    /\ pc = "idle"
    /\ call = NoCall
    /\ srv = Started
    /\ sg = IdleGenerator

\* csvLoader.inferSchema(data, metadata)
InferSchema(data, metadata) ==
    /\ pc = "idle"
    /\ call' = [kind |-> "inferSchema", data |-> data, metadata |-> metadata,
                result |-> inferSchema(data, metadata)]
    /\ pc' = "done"
    /\ UNCHANGED <<tables, builderRev, generator, srv, sg>>

\* The value insertData binds for one column of one row.
ConvertToSQLValue(value, fieldType) ==
    /\ pc = "idle"
    /\ call' = [kind |-> "convertToSQLValue", value |-> value,
                fieldType |-> fieldType,
                result |-> convertToSQLValue(value, fieldType)]
    /\ pc' = "done"
    /\ UNCHANGED <<tables, builderRev, generator, srv, sg>>

\* The name of a relationship as the generator and as the filter engine
\* derive it, and what each makes of a filter {key: {id: {eq: 1}}}.
GetRelationshipFieldName(relationship, key) ==
    /\ pc = "idle"
    /\ LET filters == Filter(<<Entry(key, Nested(<<Entry("id", Ops([eq |-> IntV(1)]))>>))>>)
       IN  call' = [kind |-> "getRelationshipFieldName",
                    relationship |-> relationship, key |-> key,
                    generatorName |-> getRelationshipFieldName(relationship),
                    filtersName |-> FiltersGetRelationshipFieldName(relationship),
                    memoryPath |-> hasRelationshipFilters(filters, <<relationship>>),
                    relationshipKeys |->
                        { RelationshipFilters(filters.e, <<relationship>>)[i].key :
                            i \in 1..Len(RelationshipFilters(filters.e, <<relationship>>)) }]
    /\ pc' = "done"
    /\ UNCHANGED <<tables, builderRev, generator, srv, sg>>

\* Paginations of a direct call of the builder: none, an empty object,
\* either member alone, both.
BuilderPaginations ==
    { NoPagination, Pagination(NoNum, NoNum), Pagination(NoNum, Num(2)),
      Pagination(Num(1), NoNum), Pagination(Num(1), Num(2)) }

\* queryBuilder.buildSelectQuery('Users', filter, pagination) and
\* queryBuilder.buildCountQuery('Users', filter)
BuildQueries(filter, pagination) ==
    /\ pc = "idle"
    /\ call' = [kind |-> "buildSelectQuery", filter |-> filter,
                pagination |-> pagination,
                select |-> buildSelectQuery("Users", filter, pagination, builderRev),
                count |-> buildCountQuery("Users", filter, builderRev)]
    /\ pc' = "done"
    /\ UNCHANGED <<tables, builderRev, generator, srv, sg>>

NextLoader ==
    \/ \E data \in SampleData, metadata \in Metadatas : InferSchema(data, metadata)
    \/ \E filter \in FilterArgs, pagination \in BuilderPaginations :
            BuildQueries(filter, pagination)
    \/ \E c \in Conversions : ConvertToSQLValue(c[1], c[2])
    \/ \E relationship \in NamedRelationships, key \in KnownNames :
            GetRelationshipFieldName(relationship, key)
    \/ Return

SpecLoader == InitLoader /\ [][NextLoader]_vars

\* The elements of a sequence.
Range(seq) == {seq[i] : i \in 1..Len(seq)}

\* The declared fields that name no column, in declaration order.
UnseenFields(columns, metadata) ==
    SelectSeq(metadata.fields,
              LAMBDA f : \A i \in 1..Len(columns) : columns[i] # f.name)

\* C23: inferSchema returns one descriptor per column of the first row, in
\* column order, with the metadata's type and description for a column the
\* metadata names and String for any other, followed by the metadata
\* fields that name no column; with no sample rows it returns the declared
\* metadata fields, or an empty list.
InferSchemaDescriptors ==
    call.kind = "inferSchema" =>
        IF Len(call.data) = 0
        THEN call.result = (IF call.metadata.def THEN call.metadata.fields ELSE <<>>)
        ELSE LET columns == ObjectKeys(call.data[1])
                 unseen == UnseenFields(columns, call.metadata)
                 schema == call.result
             IN  /\ Len(schema) = Len(columns) + Len(unseen)
                 /\ \A i \in 1..Len(columns) :
                        /\ schema[i].name = columns[i]
                        /\ IF \E f \in Range(call.metadata.fields) : f.name = columns[i]
                           THEN \E f \in Range(call.metadata.fields) :
                                    /\ f.name = columns[i]
                                    /\ schema[i].type = (IF f.type = "" THEN "String" ELSE f.type)
                                    /\ schema[i].description = f.description
                           ELSE schema[i].type = "String"
                 /\ \A i \in 1..Len(unseen) :
                        schema[Len(columns) + i].name = unseen[i].name

StorageCoercionDegradesToNull ==
    call.kind = "convertToSQLValue" =>
        LET value == call.value
            fieldType == call.fieldType
            stored == call.result
            text == String(value)
            empty == IsNullish(value) \/ value = StrV(<<>>)
            isDate == \E i \in DateTicks :
                        text \in {toISOString(i), SubSeq(toISOString(i), 1, 10)}
        IN  /\ empty => stored = Null
            /\ (~empty /\ fieldType = "Boolean") =>
                    stored = IF toLowerCase(text) \in
                                  { <<"t", "r", "u", "e">>, <<"1">>, <<"y", "e", "s">> }
                             THEN IntV(1) ELSE IntV(0)
            /\ (~empty /\ fieldType = "Int" /\ ~IsDigit(text[1])) => stored = Null
            /\ (~empty /\ fieldType = "Float" /\ ~IsDigit(text[1])
                    /\ ~(Len(text) > 1 /\ text[1] = "." /\ IsDigit(text[2])))
                    => stored = Null
            /\ (~empty /\ fieldType \in {"Date", "DateTime"} /\ ~isDate)
                    => stored = Null
            /\ (fieldType = "Date" /\ stored # Null) =>
                    /\ stored.t = "str"
                    /\ Len(stored.s) = 10
                    /\ stored.s = SubSeq(text, 1, 10)

\* A full timestamp was stored in a Date column as its date.
TimestampStoredAsDate ==
    /\ call.kind = "convertToSQLValue"
    /\ call.fieldType = "Date"
    /\ call.value = StrV(toISOString(3))
    /\ call.result = StrV(SplitT(toISOString(3)))

\* The lookups one item is due: one per relationship filter, in order,
\* none for a null local field, none after a filter that no related row
\* satisfies.
RECURSIVE ExpectedRowLookups(_, _, _, _)
ExpectedRowLookups(row, relFilters, relationships, db) ==
    IF relFilters = <<>> THEN <<>>
    ELSE LET relationship == RelationshipFor(Head(relFilters).key, relationships).rel[1]
             parentValue == GetField(row, relationship.field)
             related == Query(db, RelatedRecordsQuery(relationship, parentValue)).rows
         IN  IF IsNullish(parentValue) THEN <<>>
             ELSE <<parentValue>>
                  \o (IF \E i \in 1..Len(related) :
                            ItemMatches(related[i], Head(relFilters).val.e)
                      THEN ExpectedRowLookups(row, Tail(relFilters), relationships, db)
                      ELSE <<>>)

\* The lookups a call is due: those of the items that pass every
\* plain-field filter, in item order.
RECURSIVE ExpectedLookups(_, _, _, _, _)
ExpectedLookups(data, regular, relFilters, relationships, db) ==
    IF data = <<>> THEN <<>>
    ELSE (IF ItemMatches(Head(data), regular)
          THEN ExpectedRowLookups(Head(data), relFilters, relationships, db)
          ELSE <<>>)
         \o ExpectedLookups(Tail(data), regular, relFilters, relationships, db)

\* C26: applyNestedFilters looks related rows up for a parent row only
\* after the row has passed every plain-field filter and only for a
\* non-null local field; a row a plain-field filter rejects causes no
\* lookup, the relationship filters of a row are evaluated in order up to
\* the first that fails, and a filter without a relationship key, or an
\* empty one, causes no lookup.
LookupsFollowPlainFilters ==
    call.kind = "applyNestedFilters" =>
        LET regular == RegularFilters(call.filter.e, call.relationships)
            relFilters == RelationshipFilters(call.filter.e, call.relationships)
        IN  /\ call.out.lookups
                 = ExpectedLookups(call.data, regular, relFilters,
                                   call.relationships, tables)
            /\ call.out.nq = Len(call.out.lookups)
            /\ \A i \in 1..Len(call.out.lookups) : ~IsNullish(call.out.lookups[i])
            /\ (\A i \in 1..Len(call.filter.e) :
                    ~RelationshipFor(call.filter.e[i].key, call.relationships).found)
                    => call.out.lookups = <<>>

\* Of two rows the plain-field filter passes the first only: its users
\* filter is looked up by id and matches, then its orders filter is looked
\* up by name; the second row is not looked up.
OnlyThePassingRowIsLookedUp ==
    /\ call.kind = "applyNestedFilters"
    /\ Len(call.data) = 2
    /\ Len(call.filter.e) = 3
    /\ call.data[1].name = StrV(ab)
    /\ call.data[2].name = StrV(Ab)
    /\ call.data[2].id = IntV(2)
    /\ call.out.lookups = <<IntV(1), StrV(ab)>>

\* The stored rows of Users whose created_date is a day that stands to
\* the instant v as op says.
RowsComparedWithDate(op, v) ==
    SelectSeq(tables["Users"], LAMBDA row :
        /\ row["created_date"].t = "str"
        /\ LET stored == NewDate(row["created_date"].s).n
           IN  CASE op = "gt" -> stored > v
                 [] op = "gte" -> stored >= v
                 [] op = "lt" -> stored < v
                 [] op = "lte" -> stored <= v)

\* C27: for a Date field and an operand that arrives as a Date object, the
\* SQL built for gt, gte, lt and lte selects exactly the rows whose stored
\* date is after, not before, before and not after the operand: a row of
\* the operand's own date is not selected by gt or lt, an earlier row not
\* by gt or gte.
DateObjectOperandComparisons ==
    (call.kind = "select" /\ ~call.threw) =>
        \A op \in {"gt", "gte", "lt", "lte"} : \A v \in DateEnds :
            call.filter = Filter(One("created_date", op, DateV(v))) =>
                call.rows = RowsComparedWithDate(op, v)

\* The '?' of a query's SQL text: those of its WHERE clause, then LIMIT ?
\* and OFFSET ?.
PlaceholdersOf(q) ==
    CountPlaceholders(Flatten(q.where))
        + (IF q.limitParam THEN 1 ELSE 0) + (IF q.offsetParam THEN 1 ELSE 0)

\* C28: the SQL of buildSelectQuery and of buildCountQuery has as many
\* placeholders as the params list has entries, the filter values first
\* (the same for both queries), then the limit, then the offset; OFFSET is
\* emitted only together with LIMIT.
PlaceholdersMatchParams ==
    call.kind = "buildSelectQuery" =>
        LET nWhere == CountPlaceholders(Flatten(call.select.where))
        IN  /\ PlaceholdersOf(call.select) = Len(call.select.params)
            /\ PlaceholdersOf(call.count) = Len(call.count.params)
            /\ call.count.params = SubSeq(call.select.params, 1, nWhere)
            /\ (call.pagination.def /\ call.pagination.limit.def) =>
                    /\ call.select.limitParam
                    /\ call.select.params[nWhere + 1] = IntV(call.pagination.limit.n)
            /\ (call.select.offsetParam /\ call.select.limitParam) =>
                    call.select.params[nWhere + 2] = IntV(call.pagination.offset.n)
            /\ call.select.offsetParam => call.select.limitParam

\* The entries of a nested filter that are operator sets on a field with
\* one of the ten operators at least.
PlainEntries(entries) ==
    SelectSeq(entries, LAMBDA en :
        /\ en.val.t = "ops"
        /\ DOMAIN en.val.o \cap {"eq", "ne", "gt", "gte", "lt", "lte", "in",
                                 "contains", "startsWith", "endsWith"} # {})

\* A related row of the parent satisfies the plain entries of the nested
\* filter.
SomeRelatedRowMatchesPlainly(row, relFilter, relationships) ==
    LET relationship == RelationshipFor(relFilter.key, relationships).rel[1]
        parentValue == GetField(row, relationship.field)
        related == Query(tables, RelatedRecordsQuery(relationship, parentValue)).rows
    IN  /\ ~IsNullish(parentValue)
        /\ \E i \in 1..Len(related) :
              \A j \in 1..Len(PlainEntries(relFilter.val.e)) :
                  matchesFieldFilter(
                      GetField(related[i], PlainEntries(relFilter.val.e)[j].key),
                      PlainEntries(relFilter.val.e)[j].val)

\* C29: inside a relationship filter one hop only is evaluated: every key
\* of the nested filter is read as a plain field of the related row, so a
\* key that names a relationship of the related dataset, or an operator
\* set with unknown operators only, puts no constraint on the related row
\* and causes no further lookup.
OnlyOneHopIsEvaluated ==
    call.kind = "applyNestedFilters" =>
        LET regular == RegularFilters(call.filter.e, call.relationships)
            relFilters == RelationshipFilters(call.filter.e, call.relationships)
        IN  /\ call.out.out
                 = SelectSeq(call.data, LAMBDA row :
                       /\ ItemMatches(row, regular)
                       /\ \A k \in 1..Len(relFilters) :
                             SomeRelatedRowMatchesPlainly(row, relFilters[k],
                                                          call.relationships))
            /\ call.out.nq <= Len(call.data) * Len(relFilters)

\* The rows of Users are kept under {users: {orders: {status: {eq: 'ab'}}}}
\* with one lookup each, although no order exists.
SecondLevelKeyConstrainsNothing ==
    /\ call.kind = "applyNestedFilters"
    /\ call.filter = Filter(<<Entry("users",
            Nested(<<Entry("orders", Nested(One("status", "eq", StrV(ab))))>>))>>)
    /\ tables["Orders"] = <<>>
    /\ Len(call.data) = 2
    /\ call.out.out = call.data
    /\ call.out.nq = 2

\* C30: when the parent's local field is null or undefined,
\* resolveRelationship returns null and queries nothing, for a one-to-one
\* and for a one-to-many relationship alike -- null and not an empty array,
\* even when the limit is 0.
NullParentResolvesToNull ==
    ( /\ call.kind = "relationship"
      /\ IsNullish(GetField(call.parent, call.relationship.field)) ) =>
        /\ ~call.out.threw
        /\ call.out.shape = "null"
        /\ call.out.rows = <<>>
        /\ call.out.nq = 0

\* The orders of a user without an id were asked for with limit 0.
NullParentOneToManyLimitZero ==
    /\ call.kind = "relationship"
    /\ call.relationship.type = "one-to-many"
    /\ IsNullish(GetField(call.parent, call.relationship.field))
    /\ call.pagination.limit = Num(0)
    /\ call.out.shape = "null"

====
